---- MODULE Spec2Model ----
(***************************************************************************)
(* Jam-session synchronisation engine of app.py: the session registry     *)
(* active_jams, the per-connection coroutine websocket_jam_endpoint, the   *)
(* broadcast helpers and the background task cleanup_inactive_sessions.    *)
(*                                                                         *)
(* The server is one asyncio event loop: a coroutine runs without          *)
(* interruption from one await to the next, so every action below is one   *)
(* such segment, ending with the effect of the await it stops at (a send,  *)
(* a close, or the wait for the next inbound frame).                       *)
(*                                                                         *)
(* Time is in milliseconds (time.time() * 1000).  A jam is a heap object   *)
(* (the dict created by create_jam); the registry maps ids to objects, and *)
(* a handler keeps the object it looked up in its local variable jam.      *)
(* A guest list is a Python list object: an iteration over it sees later   *)
(* appends as long as the jam still refers to that same list object        *)
(* (field attached of the iterator).                                       *)
(***************************************************************************)
EXTENDS Integers, Sequences, FiniteSets, TLC

VARIABLES
    active_jams,   \* the registry: [JamIds -> jam object, or NoJam]
    jam_order,     \* insertion order of the registry's keys (dict order)
    jams,          \* heap of jam dicts: [1..MaxJams -> record], allocated below nextJam
    nextJam,       \* next jam object to allocate
    ws,            \* [Conns -> state of the websocket]
    h,             \* [Conns -> locals of the connection's handler coroutine]
    inbox,         \* [Conns -> frames sent by the client, not yet received]
    sent,          \* [Conns -> summary of the frames the server sent to the client]
    sw,            \* locals of the cleanup_inactive_sessions task
    now,           \* the clock, in ms
    nsends         \* number of client frames sent so far (bounds the run)

vars == <<active_jams, jam_order, jams, nextJam, ws, h, inbox, sent, sw, now, nsends>>

----------------------------------------------------------------------------
(* Bounds of the model *)

MaxJams == 2
MaxSweepSends == 2
MaxThrottleSends == 5
MaxMsgSends == 2
MaxInbox == 1
MaxCoarseTicks == 2
MaxPairTicks == 1
MaxPairSends == 1
MaxChatSends == 1
MaxIdleTicks == 1
MaxProbes == 2
MaxLoopSends == 4
MaxFineTicks == 7
CountCap == 5

(* Program constants, in ms *)
ThrottleWindow == 50
SessionTimeout == 300000
SweepPeriod == 60000
IdleWindow == 30000

Epoch == 2 * ThrottleWindow
FineStep == ThrottleWindow \div 2
CoarseStep == SessionTimeout \div 2 + SweepPeriod

Conns == {"c1", "c2", "c3"}
JamIds == {"j1", "j2"}
NoJam == 0
NoWs == "none"

(* Display names, as sequences of characters. *)
Ann == <<"a", "n", "n">>
Bob == <<"b", "o", "b">>
Tom == <<"t", "o", "m">>
Names == {Ann, Bob, Tom}

(* Track descriptors; NoSong is None. *)
NoSong == [id |-> 0, title |-> "none"]
SongA == [id |-> 1, title |-> "a"]
SongB == [id |-> 2, title |-> "b"]
SongC == [id |-> 3, title |-> "c"]

BadNum == -1   \* a JSON value float() raises on

Range(s) == {s[i] : i \in 1..Len(s)}

----------------------------------------------------------------------------
(* Inbound frames.  A JSON object is a record with the set has of the keys  *)
(* it carries; kind tells text that is not JSON and JSON that is no object. *)

Msg(type, has, song, playlist, is_playing, position, volume, message) ==
    [kind |-> "object", type |-> type, has |-> has, song |-> song,
     playlist |-> playlist, is_playing |-> is_playing, position |-> position,
     volume |-> volume, message |-> message]

Plain(type) == Msg(type, {}, NoSong, <<>>, FALSE, 0, 0, [len |-> 0, stripped |-> 0])
Malformed == [Plain("") EXCEPT !.kind = "malformed"]
NonObject == [Plain("") EXCEPT !.kind = "nonobject"]

Get(data, key, default) == IF key \in data.has THEN data[key] ELSE default

----------------------------------------------------------------------------
(* Outbound frames *)

NoMsg == [type |-> "none"]

GuestNames(S, o) ==
    [i \in 1..Len(S.jams[o].guests) |-> S.h[S.jams[o].guests[i]].username]

(* variant: the snapshot is built from the state the jam was created with *)
InitialSyncMut(S, o, is_host) ==
    [type |-> "initial_sync",
     current_song |-> NoSong,
     playlist |-> <<>>,
     is_playing |-> FALSE,
     position |-> 0,
     volume |-> 10,
     host |-> S.jams[o].host_name,
     guests |-> GuestNames(S, o),
     you_are_host |-> is_host]

InitialSync(S, o, is_host) ==
    [type |-> "initial_sync",
     current_song |-> S.jams[o].current_song,
     playlist |-> S.jams[o].playlist,
     is_playing |-> S.jams[o].is_playing,
     position |-> S.jams[o].position,
     volume |-> S.jams[o].volume,
     host |-> S.jams[o].host_name,
     guests |-> GuestNames(S, o),
     you_are_host |-> is_host]

ParticipantsUpdate(S, o) ==
    [type |-> "participants_update",
     host |-> S.jams[o].host_name,
     guests |-> GuestNames(S, o)]

SyncMsg(J) ==
    [type |-> "sync", song |-> J.current_song, is_playing |-> J.is_playing,
     position |-> J.position, volume |-> J.volume]

(* variant: the message names no song *)
SongChangeMsgMut(J) ==
    [type |-> "song_change", song |-> NoSong,
     is_playing |-> J.is_playing, position |-> 0]

SongChangeMsg(J) ==
    [type |-> "song_change", song |-> J.current_song,
     is_playing |-> J.is_playing, position |-> 0]

PlaylistMsg(J) == [type |-> "playlist_update", playlist |-> J.playlist]

SeekMsg(J) == [type |-> "seek", position |-> J.position]

JamEnded(J) == [type |-> "jam_ended", reason |-> J.host_name]

ChatMsg(J, sender, message) ==
    [type |-> "chat_message", sender |-> sender, message |-> message,
     is_host |-> (sender = J.host_name)]

CloseFrame(code, reason) ==
    [type |-> "close", code |-> code, reason |-> reason, noticed |-> FALSE]

Heartbeat == [type |-> "heartbeat"]

----------------------------------------------------------------------------
(* The server's state as one record, so that the code of a segment composes *)

St ==
    [aj |-> active_jams, order |-> jam_order, jams |-> jams, ws |-> ws,
     h |-> h, sent |-> sent, sw |-> sw]

Commit(S) ==
    /\ active_jams' = S.aj
    /\ jam_order' = S.order
    /\ jams' = S.jams
    /\ ws' = S.ws
    /\ h' = S.h
    /\ sent' = S.sent
    /\ sw' = S.sw

NoIt ==
    [jam |-> NoJam, list |-> <<>>, idx |-> 0, attached |-> FALSE, msg |-> NoMsg,
     failed |-> {}]   \* history: the recipients of this iteration whose send raised

NewIt(o, list, msg) ==
    [jam |-> o, list |-> list, idx |-> 1, attached |-> TRUE, msg |-> msg,
     failed |-> {}]

NewHandler ==
    [pc |-> "new", jam_id |-> "j1", jam |-> NoJam, username |-> Ann,
     role |-> "none", jam_local |-> NoJam, it |-> NoIt, k |-> "loop",
     last_heartbeat |-> 0,
     \* history, not program state:
     left_with |-> <<>>,                     \* the guests when the host's cleanup began
     seen |-> [type |-> "none", at |-> 0]]   \* the last parsed frame and its time

NewJam(name, t) ==
    [host_ws |-> NoWs, host_name |-> name, guests |-> <<>>,
     current_song |-> NoSong, playlist |-> <<>>, is_playing |-> FALSE,
     position |-> 0, volume |-> 10, created_at |-> t,
     last_update_time |-> 0, last_heartbeat |-> t,
     \* history, not program state:
     joined |-> <<>>,      \* connections given a role, in order
     accepted |-> <<>>,    \* times of the accepted host_update frames
     last_msg |-> t,       \* time of the last parsed inbound frame (or creation)
     last_host_msg |-> t,  \* the same, counting the host's frames only
     last_act |-> t]       \* time of the last parsed frame or accepted connection

(* What a client was sent is kept per connection as a summary: the type of  *)
(* the first frame, and per type the number of delivery attempts (counted   *)
(* up to CountCap) and the last frame.                                       *)
Types ==
    {"initial_sync", "participants_update", "sync", "song_change",
     "playlist_update", "seek", "jam_ended", "chat_message", "close", "heartbeat"}

NoLog ==
    [first |-> "none", n |-> [t \in Types |-> 0], last |-> [t \in Types |-> NoMsg]]

Log(L, msg) ==
    [first |-> IF L.first = "none" THEN msg.type ELSE L.first,
     n |-> [L.n EXCEPT ![msg.type] = IF @ < CountCap THEN @ + 1 ELSE @],
     last |-> [L.last EXCEPT ![msg.type] = msg]]

(* ws.send_bytes / send_json: a delivery attempt *)
Send(S, c, msg) == [S EXCEPT !.sent[c] = Log(@, msg)]

(* send_bytes raises on a socket the server has closed.  (On a socket the   *)
(* peer has left it raises or not, as the disconnect has been seen or not;  *)
(* send_compressed swallows either way.)                                     *)
SendFails(S, c) == S.ws[c] = "closed"

(* ws.close(code, reason): closes an open socket; the frame notes whether   *)
(* jam_ended had been sent to the client before                              *)
Close(S, c, code, reason) ==
    IF S.ws[c] \in {"open", "dead"}
    THEN [S EXCEPT !.sent[c] = Log(@, [CloseFrame(code, reason) EXCEPT
                                         !.noticed = (S.sent[c].n["jam_ended"] > 0)]),
                   !.ws[c] = "closed"]
    ELSE S

(* An iterator over the list object that jam o holds loses sight of the     *)
(* jam's guests once the jam is given another list object.                   *)
Detach(it, o) == IF it.jam = o THEN [it EXCEPT !.attached = FALSE] ELSE it

(* jam["guests"] = <a new list> *)
SetGuests(S, o, new) ==
    [S EXCEPT !.jams[o].guests = new,
              !.h = [d \in Conns |-> [S.h[d] EXCEPT !.it = Detach(@, o)]],
              !.sw.it = Detach(@, o)]

Grow(it, o, c) ==
    IF it.jam = o /\ it.attached THEN [it EXCEPT !.list = Append(@, c)] ELSE it

(* jam["guests"].append(guest): seen by the iterations over that list object *)
AppendGuest(S, o, c) ==
    [S EXCEPT !.jams[o].guests = Append(@, c),
              !.h = [d \in Conns |-> [S.h[d] EXCEPT !.it = Grow(@, o, c)]],
              !.sw.it = Grow(@, o, c)]

(* variant: the pop empties the registry *)
PopMut(S, id) ==
    [S EXCEPT !.aj = [i \in JamIds |-> NoJam],
              !.order = <<>>]

(* active_jams.pop(jam_id, None) *)
Pop(S, id) ==
    [S EXCEPT !.aj[id] = NoJam,
              !.order = SelectSeq(@, LAMBDA x : x # id)]

----------------------------------------------------------------------------
(* websocket_jam_endpoint, lines 518-524: after the jam_ended broadcast the  *)
(* host's handler closes the guests' sockets one by one, then pops the jam.  *)

CloseGuests(S, c) ==
    LET o == S.h[c].jam_local
        list == S.jams[o].guests
    IN  IF list = <<>>
        THEN [Pop(S, S.h[c].jam_id) EXCEPT !.h[c].pc = "done", !.h[c].it = NoIt]
        ELSE [Close(S, list[1], 1000, "Host disconnected")
                EXCEPT !.h[c].pc = "closing", !.h[c].it = NewIt(o, list, NoMsg)]

(* What the caller of a broadcast does once the broadcast has returned, up   *)
(* to its next await: back to receive_text (k = "loop"), the end of the      *)
(* handler (k = "done"), or the host's teardown (k = "teardown").            *)
Cont(S, c, k) ==
    CASE k = "loop" ->
            [S EXCEPT !.h[c].pc = IF S.ws[c] = "closed" THEN "loop_closed" ELSE "loop",
                      !.h[c].it = NoIt]
      [] k = "done" -> [S EXCEPT !.h[c].pc = "done", !.h[c].it = NoIt]
      [] OTHER -> CloseGuests(S, c)

(* broadcast_to_guests, up to its first await *)
BroadcastToGuests(S, c, msg, k) ==
    LET o == S.aj[S.h[c].jam_id] IN
    IF o = NoJam THEN Cont(S, c, k)
    ELSE IF S.jams[o].guests = <<>> THEN Cont(SetGuests(S, o, <<>>), c, k)
    ELSE LET g == S.jams[o].guests[1] IN
         [Send(S, g, msg)
            EXCEPT !.h[c].pc = "bc", !.h[c].k = k,
                   !.h[c].it = [NewIt(o, S.jams[o].guests, msg) EXCEPT
                                   !.failed = IF SendFails(S, g) THEN {g} ELSE {}]]

(* variant: the fan-out returns to the caller after a send that raised *)
BroadcastNextMut(S, c) ==
    LET it == S.h[c].it IN
    IF it.idx < Len(it.list) /\ it.failed = {}
    THEN LET g == it.list[it.idx + 1] IN
         [Send(S, g, it.msg)
            EXCEPT !.h[c].it.idx = it.idx + 1,
                   !.h[c].it.failed = IF SendFails(S, g) THEN @ \cup {g} ELSE @]
    ELSE Cont(SetGuests(S, it.jam, it.list), c, S.h[c].k)

(* broadcast_to_guests, from one await to the next: the next guest of the    *)
(* list, or jam["guests"] = alive and the return to the caller.  alive is    *)
(* every guest iterated, because send_compressed swallows a failed send.     *)
BroadcastNext(S, c) ==
    LET it == S.h[c].it IN
    IF it.idx < Len(it.list)
    THEN LET g == it.list[it.idx + 1] IN
         [Send(S, g, it.msg)
            EXCEPT !.h[c].it.idx = it.idx + 1,
                   !.h[c].it.failed = IF SendFails(S, g) THEN @ \cup {g} ELSE @]
    ELSE Cont(SetGuests(S, it.jam, it.list), c, S.h[c].k)

(* broadcast_participants_update / broadcast_chat_message, up to the first   *)
(* await: the payload is built, then sent to the host when there is one.     *)
BroadcastViaHost(S, c, o, payload, k) ==
    IF S.jams[o].host_ws # NoWs
    THEN [Send(S, S.jams[o].host_ws, payload)
            EXCEPT !.h[c].pc = "bc_host", !.h[c].k = k,
                   !.h[c].it = [NoIt EXCEPT !.msg = payload]]
    ELSE BroadcastToGuests(S, c, payload, k)

BroadcastParticipantsUpdate(S, c, k) ==
    LET o == S.aj[S.h[c].jam_id] IN
    IF o = NoJam THEN Cont(S, c, k)
    ELSE BroadcastViaHost(S, c, o, ParticipantsUpdate(S, o), k)

BroadcastChatMessage(S, c, message, k) ==
    LET o == S.aj[S.h[c].jam_id] IN
    IF o = NoJam THEN Cont(S, c, k)
    ELSE BroadcastViaHost(S, c, o, ChatMsg(S.jams[o], S.h[c].username, message), k)

(* variant: the teardown closes the guests' sockets and forgets the pop *)
CloseNextMut(S, c) ==
    LET it == S.h[c].it IN
    IF it.idx < Len(it.list)
    THEN [Close(S, it.list[it.idx + 1], 1000, "Host disconnected")
            EXCEPT !.h[c].it.idx = it.idx + 1]
    ELSE [S EXCEPT !.h[c].pc = "done", !.h[c].it = NoIt]

(* the teardown's loop over the guests' sockets, from one close to the next *)
CloseNext(S, c) ==
    LET it == S.h[c].it IN
    IF it.idx < Len(it.list)
    THEN [Close(S, it.list[it.idx + 1], 1000, "Host disconnected")
            EXCEPT !.h[c].it.idx = it.idx + 1]
    ELSE [Pop(S, S.h[c].jam_id) EXCEPT !.h[c].pc = "done", !.h[c].it = NoIt]

(* except Exception: close with 1011, no cleanup of the jam *)
Fault(S, c) ==
    [Close(S, c, 1011, "Internal server error")
        EXCEPT !.h[c].pc = "done", !.h[c].it = NoIt]

----------------------------------------------------------------------------
(* Validation *)

AlnumChars == {"a", "b", "m", "n", "o", "t", "1"}

IsAlnum(ch) == ch \in AlnumChars

(* variant: only the characters are checked *)
validate_usernameMut(name) ==
    \A i \in 1..Len(name) : IsAlnum(name[i]) \/ name[i] \in {" ", "-", "_"}

validate_username(name) ==
    /\ ~(Len(name) = 0 \/ Len(name) < 3 \/ Len(name) > 20)
    /\ \A i \in 1..Len(name) : IsAlnum(name[i]) \/ name[i] \in {" ", "-", "_"}

(* A chat text is known by its length and its length once stripped. *)
Text(len, stripped) == [len |-> len, stripped |-> stripped]

(* variant: the limit of 500 is put on the stripped text *)
validate_messageMut(msg) ==
    /\ msg.stripped >= 1
    /\ msg.stripped <= 500

validate_message(msg) ==
    /\ ~(msg.len = 0 \/ msg.stripped = 0)
    /\ msg.len <= 500

----------------------------------------------------------------------------
(* HTTP entry points *)

(* get_jam_playlist: the response to GET /get-jam-playlist/{jam_id} *)
get_jam_playlist(S, id) ==
    IF S.aj[id] = NoJam
    THEN [status |-> 404, body |-> NoMsg]
    ELSE [status |-> 200,
          body |-> [InitialSync(S, S.aj[id], FALSE) EXCEPT !.type = "snapshot"]]

(* create_jam: uuid4 gives the id; the dict is stored under it unconditionally *)
CreateJam(id, name) ==
    /\ nextJam <= MaxJams
    /\ validate_username(name)
    /\ active_jams' = [active_jams EXCEPT ![id] = nextJam]
    /\ jam_order' = IF active_jams[id] = NoJam THEN Append(jam_order, id) ELSE jam_order
    /\ jams' = [jams EXCEPT ![nextJam] = NewJam(name, now)]
    /\ nextJam' = nextJam + 1
    /\ UNCHANGED <<ws, h, inbox, sent, sw, now, nsends>>

----------------------------------------------------------------------------
(* websocket_jam_endpoint, lines 329-373: accept, validate, assign the role, *)
(* send initial_sync                                                          *)

Reject(S, c, reason) ==
    [Close([S EXCEPT !.ws[c] = "open"], c, 1008, reason) EXCEPT !.h[c].pc = "done"]

(* variant: the name check is skipped *)
NameTakenMut(S, o, name) == FALSE

NameTaken(S, o, name) ==
    \E i \in 1..Len(S.jams[o].guests) : S.h[S.jams[o].guests[i]].username = name

(* variant: the host slot is taken to be free as long as no guest has joined *)
HostAbsentMut(J) == J.guests = <<>>

HostAbsent(J) == J.host_ws = NoWs

(* variant: the jam keeps the host name it was created with *)
AssignRoleMut(S, c, o) ==
    IF HostAbsent(S.jams[o])
    THEN [S EXCEPT !.jams[o].host_ws = c,
                   !.h[c].role = "host"]
    ELSE [AppendGuest(S, o, c) EXCEPT !.h[c].role = "guest",
                                       !.h[c].last_heartbeat = now]

AssignRole(S, c, o) ==
    IF HostAbsent(S.jams[o])
    THEN [S EXCEPT !.jams[o].host_ws = c,
                   !.jams[o].host_name = S.h[c].username,
                   !.h[c].role = "host"]
    ELSE [AppendGuest(S, o, c) EXCEPT !.h[c].role = "guest",
                                       !.h[c].last_heartbeat = now]

Accepted(S, c, o) ==
    LET S1 == AssignRole(S, c, o)
        S2 == [S1 EXCEPT !.jams[o].last_heartbeat = now,
                         !.jams[o].joined = Append(@, c),
                         !.jams[o].last_act = now]
    IN  [Send(S2, c, InitialSync(S2, o, S2.h[c].role = "host"))
            EXCEPT !.h[c].pc = "joined"]

Connect(S, c, id, name) ==
    LET S0 == [S EXCEPT !.ws[c] = "open", !.h[c].jam_id = id, !.h[c].username = name]
        o == S.aj[id]
    IN  IF ~validate_username(name) THEN Reject(S0, c, "Invalid username")
        ELSE IF o = NoJam THEN Reject(S0, c, "Jam session not found")
        ELSE LET S1 == [S0 EXCEPT !.h[c].jam = o] IN
             IF ~HostAbsent(S.jams[o]) /\ NameTaken(S, o, name)
             THEN Reject(S1, c, "Username already taken")
             ELSE Accepted(S1, c, o)

Join(c, id, name) ==
    /\ h[c].pc = "new"
    /\ Commit(Connect(St, c, id, name))
    /\ UNCHANGED <<nextJam, inbox, now, nsends>>

(* The handler's segments between two awaits of a broadcast or a teardown *)
Step(c) ==
    /\ \/ /\ h[c].pc = "joined"
          /\ Commit(BroadcastParticipantsUpdate(St, c, "loop"))
       \/ /\ h[c].pc = "bc_host"
          /\ Commit(BroadcastToGuests(St, c, h[c].it.msg, h[c].k))
       \/ /\ h[c].pc = "bc"
          /\ Commit(BroadcastNext(St, c))
       \/ /\ h[c].pc = "closing"
          /\ Commit(CloseNext(St, c))
    /\ UNCHANGED <<nextJam, inbox, now, nsends>>

----------------------------------------------------------------------------
(* websocket_jam_endpoint, lines 390-508: one inbound frame *)

(* line 413: the throttle gate of host_update *)
(* variant: a gate of half the window *)
ThrottledMut(J, nowt) == nowt - J.last_update_time < ThrottleWindow \div 2

Throttled(J, nowt) == nowt - J.last_update_time < ThrottleWindow

(* variant: an accepted update does not record its time *)
HostUpdateMut(S, c, data) ==
    LET o == S.h[c].jam
        J == S.jams[o]
        S1 == [S EXCEPT !.jams[o].is_playing = Get(data, "is_playing", J.is_playing),
                        !.jams[o].accepted = Append(@, now)]
        pos == Get(data, "position", J.position)
        S2 == [S1 EXCEPT !.jams[o].position = pos]
        S3 == IF "volume" \in data.has
              THEN [S2 EXCEPT !.jams[o].volume = data.volume] ELSE S2
    IN  IF Throttled(J, now) THEN Cont(S, c, "loop")
        ELSE IF pos = BadNum THEN Fault(S1, c)
        ELSE IF "volume" \in data.has /\ data.volume = BadNum THEN Fault(S2, c)
        ELSE BroadcastToGuests(S3, c, SyncMsg(S3.jams[o]), "loop")

(* lines 411-427 *)
HostUpdate(S, c, data) ==
    LET o == S.h[c].jam
        J == S.jams[o]
        S1 == [S EXCEPT !.jams[o].last_update_time = now,
                        !.jams[o].is_playing = Get(data, "is_playing", J.is_playing),
                        !.jams[o].accepted = Append(@, now)]
        pos == Get(data, "position", J.position)
        S2 == [S1 EXCEPT !.jams[o].position = pos]
        S3 == IF "volume" \in data.has
              THEN [S2 EXCEPT !.jams[o].volume = data.volume] ELSE S2
    IN  IF Throttled(J, now) THEN Cont(S, c, "loop")
        ELSE IF pos = BadNum THEN Fault(S1, c)
        ELSE IF "volume" \in data.has /\ data.volume = BadNum THEN Fault(S2, c)
        ELSE BroadcastToGuests(S3, c, SyncMsg(S3.jams[o]), "loop")

(* variant: host_init leaves the stored playlist *)
HostInitMut(S, c, data) ==
    LET o == S.h[c].jam
        J == S.jams[o]
        S1 == [S EXCEPT !.jams[o].current_song = Get(data, "song", NoSong),
                        !.jams[o].is_playing = Get(data, "is_playing", FALSE)]
        pos == Get(data, "position", 0)
        vol == Get(data, "volume", J.volume)
        S2 == [S1 EXCEPT !.jams[o].position = pos]
        S3 == [S2 EXCEPT !.jams[o].volume = vol]
    IN  IF pos = BadNum THEN Fault(S1, c)
        ELSE IF vol = BadNum THEN Fault(S2, c)
        ELSE BroadcastParticipantsUpdate(S3, c, "loop")

(* lines 429-435 *)
HostInit(S, c, data) ==
    LET o == S.h[c].jam
        J == S.jams[o]
        S1 == [S EXCEPT !.jams[o].current_song = Get(data, "song", NoSong),
                        !.jams[o].playlist = Get(data, "playlist", J.playlist),
                        !.jams[o].is_playing = Get(data, "is_playing", FALSE)]
        pos == Get(data, "position", 0)
        vol == Get(data, "volume", J.volume)
        S2 == [S1 EXCEPT !.jams[o].position = pos]
        S3 == [S2 EXCEPT !.jams[o].volume = vol]
    IN  IF pos = BadNum THEN Fault(S1, c)
        ELSE IF vol = BadNum THEN Fault(S2, c)
        ELSE BroadcastParticipantsUpdate(S3, c, "loop")

(* variant: the payload is built before the change is applied *)
SongChangeMut(S, c, data) ==
    LET o == S.h[c].jam
        S1 == [S EXCEPT !.jams[o].current_song = Get(data, "song", NoSong),
                        !.jams[o].is_playing = TRUE,
                        !.jams[o].position = 0]
    IN  BroadcastToGuests(S1, c, SongChangeMsg(S.jams[o]), "loop")

(* lines 437-446 *)
SongChange(S, c, data) ==
    LET o == S.h[c].jam
        S1 == [S EXCEPT !.jams[o].current_song = Get(data, "song", NoSong),
                        !.jams[o].is_playing = TRUE,
                        !.jams[o].position = 0]
    IN  BroadcastToGuests(S1, c, SongChangeMsg(S1.jams[o]), "loop")

(* variant: the received playlist is appended to the stored one *)
PlaylistUpdateMut(S, c, data) ==
    LET o == S.h[c].jam
        S1 == [S EXCEPT !.jams[o].playlist = @ \o Get(data, "playlist", <<>>)]
    IN  BroadcastToGuests(S1, c, PlaylistMsg(S1.jams[o]), "loop")

(* lines 448-450 *)
PlaylistUpdate(S, c, data) ==
    LET o == S.h[c].jam
        S1 == [S EXCEPT !.jams[o].playlist = Get(data, "playlist", S.jams[o].playlist)]
    IN  BroadcastToGuests(S1, c, PlaylistMsg(S1.jams[o]), "loop")

(* lines 452-459 and 501-508 *)
Chat(S, c, data) ==
    LET msg == Get(data, "message", Text(0, 0)) IN
    IF validate_message(msg) THEN BroadcastChatMessage(S, c, msg, "loop")
    ELSE Cont(S, c, "loop")

(* lines 465-467 *)
HostSeek(S, c, data) ==
    LET o == S.h[c].jam
        pos == Get(data, "position", S.jams[o].position)
        S1 == [S EXCEPT !.jams[o].position = pos]
    IN  IF pos = BadNum THEN Fault(S, c)
        ELSE BroadcastToGuests(S1, c, SeekMsg(S1.jams[o]), "loop")

(* variant: the last entry of the playlist is followed by itself *)
NextIndexMut(playlist, current) ==
    LET hits == {i \in 1..Len(playlist) : playlist[i].id = current.id} IN
    IF current = NoSong \/ hits = {} THEN 1
    ELSE LET idx == CHOOSE i \in hits : \A j \in hits : i <= j
         IN  IF idx = Len(playlist) THEN idx ELSE idx + 1

(* lines 472-480: the index of the entry after the current song *)
NextIndex(playlist, current) ==
    LET hits == {i \in 1..Len(playlist) : playlist[i].id = current.id} IN
    IF current = NoSong \/ hits = {} THEN 1
    ELSE LET idx == CHOOSE i \in hits : \A j \in hits : i <= j
         IN  (idx % Len(playlist)) + 1

(* variant: the song_change goes to the host too, then to the guests *)
HostEndedMut(S, c, data) ==
    LET o == S.h[c].jam
        J == S.jams[o]
        S1 == [S EXCEPT !.jams[o].current_song = J.playlist[NextIndex(J.playlist, J.current_song)],
                        !.jams[o].is_playing = TRUE,
                        !.jams[o].position = 0]
    IN  IF J.playlist = <<>> THEN Cont(S, c, "loop")
        ELSE BroadcastViaHost(S1, c, o, SongChangeMsg(S1.jams[o]), "loop")

(* lines 469-489 *)
HostEnded(S, c, data) ==
    LET o == S.h[c].jam
        J == S.jams[o]
        S1 == [S EXCEPT !.jams[o].current_song = J.playlist[NextIndex(J.playlist, J.current_song)],
                        !.jams[o].is_playing = TRUE,
                        !.jams[o].position = 0]
    IN  IF J.playlist = <<>> THEN Cont(S, c, "loop")
        ELSE BroadcastToGuests(S1, c, SongChangeMsg(S1.jams[o]), "loop")

(* variant: the sync goes to the guests of the jam *)
SyncRequestMut(S, c) ==
    BroadcastToGuests(S, c, SyncMsg(S.jams[S.h[c].jam]), "loop")

(* lines 493-500 *)
SyncRequest(S, c) ==
    Cont(Send(S, c, SyncMsg(S.jams[S.h[c].jam])), c, "loop")

(* lines 408-489: the host's frames *)
HandleHost(S, c, data) ==
    CASE data.type = "host_update" -> HostUpdate(S, c, data)
      [] data.type = "host_init" -> HostInit(S, c, data)
      [] data.type = "song_change" -> SongChange(S, c, data)
      [] data.type = "playlist_update" -> PlaylistUpdate(S, c, data)
      [] data.type = "chat_message" -> Chat(S, c, data)
      [] data.type = "host_seek" -> HostSeek(S, c, data)
      [] data.type = "host_ended" -> HostEnded(S, c, data)
      [] OTHER -> Cont(S, c, "loop")

(* variant: a guest's song_change and host_seek are served as the host's are *)
HandleGuestMut(S, c, data) ==
    CASE data.type = "sync_request" -> SyncRequest(S, c)
      [] data.type = "chat_message" -> Chat(S, c, data)
      [] data.type = "song_change" -> SongChange(S, c, data)
      [] data.type = "host_seek" -> HostSeek(S, c, data)
      [] OTHER -> Cont(S, c, "loop")

(* lines 491-508: a guest's frames *)
HandleGuest(S, c, data) ==
    CASE data.type = "sync_request" -> SyncRequest(S, c)
      [] data.type = "chat_message" -> Chat(S, c, data)
      [] OTHER -> Cont(S, c, "loop")

(* variant: the host's frames refresh the host's own timestamp only *)
TouchMut(S, c) ==
    LET o == S.h[c].jam
        S1 == [S EXCEPT !.jams[o].last_msg = now, !.jams[o].last_act = now]
    IN  IF S.h[c].role = "host"
        THEN [S1 EXCEPT !.h[c].last_heartbeat = now,
                        !.jams[o].last_host_msg = now]
        ELSE IF c \in Range(S.jams[o].guests)
             THEN [S1 EXCEPT !.h[c].last_heartbeat = now]
             ELSE S1

(* lines 397-404: the heartbeat timestamps *)
Touch(S, c) ==
    LET o == S.h[c].jam
        S1 == [S EXCEPT !.jams[o].last_msg = now, !.jams[o].last_act = now]
    IN  IF S.h[c].role = "host"
        THEN [S1 EXCEPT !.jams[o].last_heartbeat = now,
                        !.jams[o].last_host_msg = now]
        ELSE IF c \in Range(S.jams[o].guests)
             THEN [S1 EXCEPT !.h[c].last_heartbeat = now]
             ELSE S1

(* lines 390-508 *)
Handle(S, c, data) ==
    LET S1 == [Touch(S, c) EXCEPT !.h[c].seen = [type |-> data.type, at |-> now]] IN
    IF data.kind = "malformed" THEN Cont(S, c, "loop")
    ELSE IF data.kind = "nonobject" THEN Fault(S1, c)
    ELSE IF S.h[c].role = "host" THEN HandleHost(S1, c, data)
    ELSE HandleGuest(S1, c, data)

Receive(c) ==
    /\ h[c].pc = "loop"
    /\ inbox[c] # <<>>
    /\ ws[c] # "closed"
    /\ Commit(Handle(St, c, Head(inbox[c])))
    /\ inbox' = [inbox EXCEPT ![c] = Tail(@)]
    /\ UNCHANGED <<nextJam, now, nsends>>

----------------------------------------------------------------------------
(* websocket_jam_endpoint, lines 510-527: except WebSocketDisconnect *)

(* variant: the cleanup drops the guest that joined last *)
WithoutMut(list, c) == SubSeq(list, 1, Len(list) - 1)

Without(list, c) == SelectSeq(list, LAMBDA g : g # c)

(* variant: the leave of the last guest takes the jam out of the registry *)
CleanupMut(S, c) ==
    LET o == S.aj[S.h[c].jam_id]
        S1 == [S EXCEPT !.h[c].jam_local = o,
                        !.h[c].left_with = IF o = NoJam THEN <<>> ELSE S.jams[o].guests]
    IN  IF o = NoJam THEN Cont(S, c, "done")
        ELSE IF S.h[c].role = "host"
        THEN BroadcastToGuests(S1, c, JamEnded(S.jams[o]), "teardown")
        ELSE IF Without(S.jams[o].guests, c) = <<>>
        THEN Cont(Pop(S1, S.h[c].jam_id), c, "done")
        ELSE BroadcastParticipantsUpdate(
                 SetGuests(S1, o, Without(S.jams[o].guests, c)), c, "done")

Cleanup(S, c) ==
    LET o == S.aj[S.h[c].jam_id]
        S1 == [S EXCEPT !.h[c].jam_local = o,
                        !.h[c].left_with = IF o = NoJam THEN <<>> ELSE S.jams[o].guests]
    IN  IF o = NoJam THEN Cont(S, c, "done")
        ELSE IF S.h[c].role = "host"
        THEN BroadcastToGuests(S1, c, JamEnded(S.jams[o]), "teardown")
        ELSE BroadcastParticipantsUpdate(
                 SetGuests(S1, o, Without(S.jams[o].guests, c)), c, "done")

(* receive_text raises WebSocketDisconnect: the peer is gone, or the server *)
(* closed the socket while the handler was waiting                           *)
Disconnect(c) ==
    /\ h[c].pc = "loop"
    /\ \/ ws[c] = "closed"
       \/ ws[c] = "gone" /\ inbox[c] = <<>>
    /\ Commit(Cleanup(St, c))
    /\ UNCHANGED <<nextJam, inbox, now, nsends>>

(* receive_text on a socket the server closed before the call: the ASGI      *)
(* server reports the disconnect, or the framework refuses the call          *)
(* (RuntimeError, the except Exception branch), depending on its version     *)
ReceiveOnClosed(c) ==
    /\ h[c].pc = "loop_closed"
    /\ \/ Commit(Cleanup(St, c))
       \/ Commit(Fault(St, c))
    /\ UNCHANGED <<nextJam, inbox, now, nsends>>

(* websocket_jam_endpoint, lines 379-388: wait_for(receive_text, 30) times  *)
(* out and the handler probes the socket with a heartbeat frame.  The model *)
(* does not measure the window: the timeout may fire whenever the handler   *)
(* waits in receive_text with no frame queued and no disconnect reported.   *)

(* variant: a probe that went through counts as activity of the connection *)
ProbeMut(S, c) == Touch(Send(S, c, Heartbeat), c)

(* line 385, then continue: the handler waits again *)
Probe(S, c) == Send(S, c, Heartbeat)

(* send_json went through: to a peer that is there, or into the buffers of  *)
(* a connection whose peer has died                                          *)
ProbeOk(c) ==
    /\ h[c].pc = "loop"
    /\ inbox[c] = <<>>
    /\ ws[c] \in {"open", "dead"}
    /\ Commit(Probe(St, c))
    /\ UNCHANGED <<nextJam, inbox, now, nsends>>

(* send_json raised (lines 386-387): WebSocketDisconnect is raised inside   *)
(* the outer try and handled at line 510                                     *)
ProbeFails(c) ==
    /\ h[c].pc = "loop"
    /\ inbox[c] = <<>>
    /\ ws[c] = "dead"
    /\ Commit(Cleanup(St, c))
    /\ UNCHANGED <<nextJam, inbox, now, nsends>>

----------------------------------------------------------------------------
(* cleanup_inactive_sessions, lines 591-609 *)

(* line 597 *)
(* variant: the scan measures the age against twice the timeout *)
StaleMut(J, nowt) == nowt - J.last_heartbeat > 2 * SessionTimeout

Stale(J, nowt) == nowt - J.last_heartbeat > SessionTimeout

(* line 609, with the history of what the sweep removed *)
SweepPop(S, id) ==
    LET o == S.aj[id] IN
    IF o = NoJam THEN S
    ELSE [Pop(S, id) EXCEPT !.sw.evicted = @ \cup {o},
                            !.sw.last_pop = [jam |-> o, at |-> now,
                                             hb |-> S.jams[o].last_heartbeat,
                                             msg |-> S.jams[o].last_msg]]

(* lines 599-609, up to the next await: the jams of to_delete without guests *)
(* are popped at once, the first guest of the next one is closed             *)
RECURSIVE SweepRun(_)
SweepRun(S) ==
    IF S.sw.to_delete = <<>>
    THEN [S EXCEPT !.sw.pc = "sleep", !.sw.wake = now + SweepPeriod, !.sw.it = NoIt]
    ELSE LET id == Head(S.sw.to_delete)
             o == S.aj[id]
         IN  IF o = NoJam \/ S.jams[o].guests = <<>>
             THEN SweepRun([SweepPop(S, id) EXCEPT !.sw.to_delete = Tail(@)])
             ELSE [Close(S, S.jams[o].guests[1], 1000, "Session timeout")
                     EXCEPT !.sw.pc = "run",
                            !.sw.it = NewIt(o, S.jams[o].guests, NoMsg)]

InRegistry(S) == {S.aj[id] : id \in JamIds} \ {NoJam}

(* lines 594-598: the scan, which has no await *)
SweepScan ==
    /\ sw.pc = "sleep"
    /\ now >= sw.wake
    /\ LET ids == SelectSeq(jam_order, LAMBDA id : Stale(jams[active_jams[id]], now))
           S1 == [St EXCEPT !.sw.nowt = now, !.sw.to_delete = ids,
                            !.sw.picked = {active_jams[ids[i]] : i \in 1..Len(ids)},
                            !.sw.scan = [o \in 1..MaxJams |->
                                            [live |-> o \in InRegistry(St),
                                             msg |-> now - jams[o].last_msg,
                                             host_msg |-> now - jams[o].last_host_msg,
                                             act |-> now - jams[o].last_act]]]
       IN  Commit(SweepRun(S1))
    /\ UNCHANGED <<nextJam, inbox, now, nsends>>

(* from one close of a guest's socket to the next *)
SweepStep ==
    /\ sw.pc = "run"
    /\ LET it == sw.it IN
       IF it.idx < Len(it.list)
       THEN Commit([Close(St, it.list[it.idx + 1], 1000, "Session timeout")
                       EXCEPT !.sw.it.idx = it.idx + 1])
       ELSE Commit(SweepRun([SweepPop(St, Head(sw.to_delete))
                                EXCEPT !.sw.to_delete = Tail(@)]))
    /\ UNCHANGED <<nextJam, inbox, now, nsends>>

----------------------------------------------------------------------------
(* The environment: clients and the clock *)

ClientSend(c, m, max) ==
    /\ ws[c] = "open"
    /\ h[c].pc \notin {"new", "done"}
    /\ Len(inbox[c]) < MaxInbox
    /\ nsends < max
    /\ inbox' = [inbox EXCEPT ![c] = Append(@, m)]
    /\ nsends' = nsends + 1
    /\ UNCHANGED <<active_jams, jam_order, jams, nextJam, ws, h, sent, sw, now>>

(* the peer dies without a close frame: nothing is reported to the server *)
PeerDies(c) ==
    /\ ws[c] = "open"
    /\ h[c].pc \notin {"new", "done"}
    /\ ws' = [ws EXCEPT ![c] = "dead"]
    /\ UNCHANGED <<active_jams, jam_order, jams, nextJam, h, inbox, sent, sw, now, nsends>>

ClientClose(c) ==
    /\ ws[c] = "open"
    /\ h[c].pc \notin {"new", "done"}
    /\ ws' = [ws EXCEPT ![c] = "gone"]
    /\ UNCHANGED <<active_jams, jam_order, jams, nextJam, h, inbox, sent, sw, now, nsends>>

Tick(d, max) ==
    /\ now + d <= Epoch + max * d
    /\ now' = now + d
    /\ UNCHANGED <<active_jams, jam_order, jams, nextJam, ws, h, inbox, sent, sw, nsends>>

----------------------------------------------------------------------------
Init ==
    /\ active_jams = [id \in JamIds |-> NoJam]
    /\ jam_order = <<>>
    /\ jams = [o \in 1..MaxJams |-> NewJam(Ann, 0)]
    /\ nextJam = 1
    /\ ws = [c \in Conns |-> "fresh"]
    /\ h = [c \in Conns |-> NewHandler]
    /\ inbox = [c \in Conns |-> <<>>]
    /\ sent = [c \in Conns |-> NoLog]
    /\ sw = [pc |-> "sleep", wake |-> Epoch + SweepPeriod, nowt |-> 0,
             to_delete |-> <<>>, it |-> NoIt, evicted |-> {},
             \* history: the jams the sweep removed, and at its last removal the
             \* clock, the jam's last_heartbeat and the time of the jam's last frame
             last_pop |-> [jam |-> NoJam, at |-> 0, hb |-> 0, msg |-> 0],
             \* history: what the last scan selected, and per jam whether it was in
             \* the registry and how old its last frame, last host frame and last
             \* frame or connection were
             picked |-> {},
             scan |-> [o \in 1..MaxJams |->
                          [live |-> FALSE, msg |-> 0, host_msg |-> 0, act |-> 0]]]
    /\ now = Epoch
    /\ nsends = 0

(* Connections are interchangeable, and so are the ids uuid4 draws: the     *)
(* k-th connection to arrive is the k-th of ConnOrder, and the k-th jam     *)
(* created gets the k-th id of IdOrder.                                      *)
ConnOrder == <<"c1", "c2", "c3">>

Arrives(c, n) ==
    \E i \in 1..n :
        /\ ConnOrder[i] = c
        /\ \A j \in 1..(i - 1) : h[ConnOrder[j]].pc # "new"

IdOrder == <<"j1", "j2">>

(* uuid4 never draws an id twice *)
Uuids == IF nextJam <= Len(IdOrder) THEN {IdOrder[nextJam]} ELSE {}

NameOf(c) == IF c = "c1" THEN Ann ELSE IF c = "c2" THEN Bob ELSE Tom

(* Life cycle: three connections with names of their own come and go *)

Next ==
    \/ \E id \in Uuids : CreateJam(id, Ann)
    \/ \E c \in Conns : Arrives(c, 3) /\ Join(c, "j1", NameOf(c))
    \/ \E c \in Conns : Step(c)
    \/ \E c \in Conns : ClientClose(c)
    \/ \E c \in Conns : Disconnect(c)
    \/ \E c \in Conns : ReceiveOnClosed(c)

Spec == Init /\ [][Next]_vars

(* Session creation with the ids uuid4 can draw: the 8-character prefix of  *)
(* a random uuid is any id, one already in the registry included.            *)
NextCreate ==
    \/ \E id \in JamIds : CreateJam(id, Ann)
    \/ \E c \in Conns, id \in JamIds : Arrives(c, 2) /\ Join(c, id, NameOf(c))
    \/ \E c \in Conns : Step(c)
    \/ \E c \in Conns : ClientClose(c)
    \/ \E c \in Conns : Disconnect(c)
    \/ \E c \in Conns : ReceiveOnClosed(c)

SpecCreate == Init /\ [][NextCreate]_vars

(* Connection attempts to one jam under names that may coincide *)
TakenNames == {Ann, Bob}

NextJoin ==
    \/ nextJam = 1 /\ CreateJam(IdOrder[1], Ann)
    \/ \E c \in Conns, name \in TakenNames : Arrives(c, 3) /\ Join(c, "j1", name)
    \/ \E c \in Conns : Step(c)
    \/ \E c \in Conns : ClientClose(c)
    \/ \E c \in Conns : Disconnect(c)
    \/ \E c \in Conns : ReceiveOnClosed(c)

SpecJoin == Init /\ [][NextJoin]_vars

(* Connection attempts with the names and ids a client can put in the URL: *)
(* valid names, names validate_username refuses, and the id of no session   *)
ShortName == <<"a", "n">>
BangName == <<"a", "n", "!">>
OddName == <<"a", " ", "-", "_">>
LongName == [i \in 1..21 |-> "a"]
JoinNames == {Ann, OddName, ShortName, BangName, LongName}

NextReject ==
    \/ nextJam = 1 /\ CreateJam(IdOrder[1], Ann)
    \/ \E c \in Conns, id \in JamIds, name \in JoinNames :
          Arrives(c, 2) /\ Join(c, id, name)
    \/ \E c \in Conns : Step(c)
    \/ \E c \in Conns : ClientClose(c)
    \/ \E c \in Conns : Disconnect(c)
    \/ \E c \in Conns : ReceiveOnClosed(c)

SpecReject == Init /\ [][NextReject]_vars

(* Frames the handler has no branch for: text that is no JSON, JSON that is *)
(* no object, an object without a type, an object of an unknown type         *)
OddFrames == {Malformed, NonObject, Plain(""), Plain("bogus")}

NextErr ==
    \/ nextJam = 1 /\ CreateJam(IdOrder[1], Ann)
    \/ \E c \in Conns : Arrives(c, 3) /\ Join(c, "j1", NameOf(c))
    \/ \E c \in Conns : Step(c)
    \/ \E c \in Conns, m \in OddFrames : ClientSend(c, m, MaxMsgSends)
    \/ \E c \in Conns : Receive(c)

SpecErr == Init /\ [][NextErr]_vars

(* The liveness sweep over one jam: a host and a guest that send the        *)
(* client's periodic heartbeat frame, the clock in steps of CoarseStep      *)
LifeMsgs == {Plain("heartbeat")}

NextSweep ==
    \/ nextJam = 1 /\ CreateJam(IdOrder[1], Ann)
    \/ \E c \in Conns : Arrives(c, 2) /\ Join(c, "j1", NameOf(c))
    \/ \E c \in Conns : Step(c)
    \/ \E c \in Conns, m \in LifeMsgs : ClientSend(c, m, MaxSweepSends)
    \/ \E c \in Conns : Receive(c)
    \/ \E c \in Conns : ClientClose(c)
    \/ \E c \in Conns : Disconnect(c)
    \/ \E c \in Conns : ReceiveOnClosed(c)
    \/ SweepScan
    \/ SweepStep
    \/ Tick(CoarseStep, MaxCoarseTicks)

SpecSweep == Init /\ [][NextSweep]_vars

(* The throttle of one jam: a burst of host_update frames from the host    *)
(* once a guest listens, the clock in steps of FineStep                     *)
ThrottleMsgs ==
    {[Plain("host_update") EXCEPT !.has = {"is_playing", "position"},
                                  !.is_playing = TRUE, !.position = 5],
     [Plain("host_update") EXCEPT !.has = {"position", "volume"},
                                  !.position = 7, !.volume = 3]}

NextThrottle ==
    \/ nextJam = 1 /\ CreateJam(IdOrder[1], Ann)
    \/ \E c \in Conns : Arrives(c, 2) /\ Join(c, "j1", NameOf(c))
    \/ \E c \in Conns : Step(c)
    \/ \E m \in ThrottleMsgs :
          h["c2"].pc = "loop" /\ ClientSend("c1", m, MaxThrottleSends)
    \/ \E c \in Conns : Receive(c)
    \/ Tick(FineStep, MaxFineTicks)

SpecThrottle == Init /\ [][NextThrottle]_vars

(* The frames that drive playback, sent by the host and by a guest *)
DrivingFrames ==
    {[Plain("host_update") EXCEPT !.has = {"is_playing", "position"},
                                  !.is_playing = TRUE, !.position = 5],
     [Plain("song_change") EXCEPT !.has = {"song"}, !.song = SongA],
     [Plain("playlist_update") EXCEPT !.has = {"playlist"},
                                      !.playlist = <<SongA, SongB>>],
     [Plain("host_seek") EXCEPT !.has = {"position"}, !.position = 7],
     Plain("host_ended"),
     [Plain("host_init") EXCEPT
         !.has = {"song", "playlist", "is_playing", "position", "volume"},
         !.song = SongB, !.playlist = <<SongB>>, !.is_playing = TRUE,
         !.position = 3, !.volume = 4]}

NextMsg ==
    \/ \E id \in Uuids : CreateJam(id, Ann)
    \/ \E c \in Conns : Arrives(c, 2) /\ Join(c, "j1", NameOf(c))
    \/ \E c \in Conns : Step(c)
    \/ \E c \in Conns, m \in DrivingFrames : ClientSend(c, m, MaxMsgSends)
    \/ \E c \in Conns : Receive(c)

SpecMsg == Init /\ [][NextMsg]_vars

(* Frames whose handling raises: JSON that is no object (data.get), and    *)
(* numbers float() refuses, in a frame that sets other fields before        *)
FaultFrames ==
    {NonObject,
     [Plain("host_init") EXCEPT
         !.has = {"song", "playlist", "is_playing", "position"},
         !.song = SongB, !.playlist = <<SongB>>, !.is_playing = TRUE,
         !.position = BadNum],
     [Plain("host_update") EXCEPT !.has = {"position", "volume"},
                                  !.position = 7, !.volume = BadNum],
     [Plain("host_seek") EXCEPT !.has = {"position"}, !.position = BadNum]}

NextFault ==
    \/ nextJam = 1 /\ CreateJam(IdOrder[1], Ann)
    \/ \E c \in Conns : Arrives(c, 2) /\ Join(c, "j1", NameOf(c))
    \/ \E c \in Conns : Step(c)
    \/ \E c \in Conns, m \in FaultFrames : ClientSend(c, m, MaxMsgSends)
    \/ \E c \in Conns : Receive(c)

SpecFault == Init /\ [][NextFault]_vars

(* Two senders at once: the first connection of one jam sends the frames   *)
(* that change the session, the second a change of its own and the request *)
(* for the session's state, while a third connects                          *)
SerialFrames ==
    {[Plain("host_update") EXCEPT !.has = {"is_playing", "position"},
                                  !.is_playing = TRUE, !.position = 5],
     [Plain("song_change") EXCEPT !.has = {"song"}, !.song = SongA],
     [Plain("playlist_update") EXCEPT !.has = {"playlist"},
                                      !.playlist = <<SongA, SongB>>],
     [Plain("host_seek") EXCEPT !.has = {"position"}, !.position = 7]}

GuestFrames ==
    {[Plain("song_change") EXCEPT !.has = {"song"}, !.song = SongB],
     Plain("sync_request")}

NextSerial ==
    \/ nextJam = 1 /\ CreateJam(IdOrder[1], Ann)
    \/ \E c \in Conns : Arrives(c, 3) /\ Join(c, "j1", NameOf(c))
    \/ \E c \in Conns : Step(c)
    \/ \E m \in SerialFrames : ClientSend("c1", m, MaxMsgSends)
    \/ \E m \in GuestFrames : ClientSend("c2", m, MaxMsgSends)
    \/ \E c \in Conns : Receive(c)

SpecSerial == Init /\ [][NextSerial]_vars

(* Two jams side by side: the first connection joins the first, the second *)
(* the second, the third either; the hosts send, everyone may leave, and   *)
(* the clock moves                                                           *)
PairFrames ==
    {[Plain("host_update") EXCEPT !.has = {"is_playing", "position"},
                                  !.is_playing = TRUE, !.position = 5]}

NextPair ==
    \/ \E id \in Uuids : CreateJam(id, Ann)
    \/ \E i \in 1..2 : Arrives(ConnOrder[i], 2) /\ Join(ConnOrder[i], IdOrder[i], NameOf(ConnOrder[i]))
    \/ \E id \in JamIds : Arrives("c3", 3) /\ Join("c3", id, NameOf("c3"))
    \/ \E c \in Conns : Step(c)
    \/ \E c \in {"c1", "c2"}, m \in PairFrames : ClientSend(c, m, MaxPairSends)
    \/ \E c \in Conns : Receive(c)
    \/ \E c \in Conns : ClientClose(c)
    \/ \E c \in Conns : Disconnect(c)
    \/ Tick(CoarseStep, MaxPairTicks)

SpecPair == Init /\ [][NextPair]_vars

(* The end of a song: the host sets the current song and the playlist with *)
(* host_init, then reports host_ended, while a guest listens                *)
EndedSongs == {NoSong, SongA, SongB, SongC}

EndedPlaylists == {<<>>, <<SongB>>, <<SongA, SongB>>, <<SongA, SongB, SongA>>}

EndedFrames ==
    {Plain("host_ended")} \cup
    {[Plain("host_init") EXCEPT
         !.has = {"song", "playlist", "is_playing", "position", "volume"},
         !.song = s, !.playlist = p, !.is_playing = FALSE,
         !.position = 3, !.volume = 4] : s \in EndedSongs, p \in EndedPlaylists}

NextEnded ==
    \/ nextJam = 1 /\ CreateJam(IdOrder[1], Ann)
    \/ \E c \in Conns : Arrives(c, 2) /\ Join(c, "j1", NameOf(c))
    \/ \E c \in Conns : Step(c)
    \/ \E m \in EndedFrames : ClientSend("c1", m, MaxMsgSends)
    \/ \E c \in Conns : Receive(c)

SpecEnded == Init /\ [][NextEnded]_vars

(* A host and two guests: the host sets song and playlist, changes the     *)
(* song and reports its end                                                  *)
EchoFrames ==
    {[Plain("host_init") EXCEPT
         !.has = {"song", "playlist", "is_playing", "position", "volume"},
         !.song = SongB, !.playlist = <<SongA, SongB>>, !.is_playing = FALSE,
         !.position = 3, !.volume = 4],
     [Plain("song_change") EXCEPT !.has = {"song"}, !.song = SongC],
     Plain("host_ended")}

NextEcho ==
    \/ nextJam = 1 /\ CreateJam(IdOrder[1], Ann)
    \/ \E c \in Conns : Arrives(c, 3) /\ Join(c, "j1", NameOf(c))
    \/ \E c \in Conns : Step(c)
    \/ \E m \in EchoFrames : ClientSend("c1", m, MaxMsgSends)
    \/ \E c \in Conns : Receive(c)

SpecEcho == Init /\ [][NextEcho]_vars

(* Requests for the session's state: the host changes the song, and every  *)
(* participant may ask for a sync                                            *)
AskFrames == {Plain("sync_request")}

NextAsk ==
    \/ nextJam = 1 /\ CreateJam(IdOrder[1], Ann)
    \/ \E c \in Conns : Arrives(c, 3) /\ Join(c, "j1", NameOf(c))
    \/ \E c \in Conns : Step(c)
    \/ ClientSend("c1", [Plain("song_change") EXCEPT !.has = {"song"}, !.song = SongA],
                  MaxMsgSends)
    \/ \E c \in Conns, m \in AskFrames : ClientSend(c, m, MaxMsgSends)
    \/ \E c \in Conns : Receive(c)

SpecAsk == Init /\ [][NextAsk]_vars

(* Chat: the host and the first guest send texts of the lengths around the *)
(* limits, a text of blanks, and a frame without a text                     *)
ChatTexts ==
    {Text(0, 0), Text(3, 0), Text(5, 3), Text(500, 500), Text(501, 500),
     Text(501, 501)}

ChatFrames ==
    {Plain("chat_message")} \cup
    {[Plain("chat_message") EXCEPT !.has = {"message"}, !.message = t] :
        t \in ChatTexts}

NextChat ==
    \/ nextJam = 1 /\ CreateJam(IdOrder[1], Ann)
    \/ \E c \in Conns : Arrives(c, 3) /\ Join(c, "j1", NameOf(c))
    \/ \E c \in Conns : Step(c)
    \/ \E c \in {"c1", "c2"}, m \in ChatFrames : ClientSend(c, m, MaxChatSends)
    \/ \E c \in Conns : Receive(c)

SpecChat == Init /\ [][NextChat]_vars

(* Chat among connections whose names may coincide *)
TagFrames ==
    {[Plain("chat_message") EXCEPT !.has = {"message"}, !.message = Text(5, 3)]}

NextTag ==
    \/ nextJam = 1 /\ CreateJam(IdOrder[1], Ann)
    \/ \E c \in Conns, name \in TakenNames : Arrives(c, 2) /\ Join(c, "j1", name)
    \/ \E c \in Conns : Step(c)
    \/ \E c \in Conns, m \in TagFrames : ClientSend(c, m, MaxMsgSends)
    \/ \E c \in Conns : Receive(c)

SpecTag == Init /\ [][NextTag]_vars

(* Idle connections and dead peers of one jam: no client sends a frame.    *)
(* The event loop runs a handler that can take a step (weak fairness of    *)
(* the handlers' steps), and a probe of a dead peer that is repeated       *)
(* without end fails at last: the stack gives up on the connection.        *)
Handlers ==
    \E c \in Conns : Step(c) \/ Disconnect(c) \/ ReceiveOnClosed(c)

NextIdle ==
    \/ nextJam = 1 /\ CreateJam(IdOrder[1], Ann)
    \/ \E c \in Conns : Arrives(c, 2) /\ Join(c, "j1", NameOf(c))
    \/ \E c \in Conns : Step(c)
    \/ \E c \in Conns : PeerDies(c)
    \/ \E c \in Conns : sent[c].n["heartbeat"] < MaxProbes /\ ProbeOk(c)
    \/ \E c \in Conns : ProbeFails(c)
    \/ \E c \in Conns : Disconnect(c)
    \/ \E c \in Conns : ReceiveOnClosed(c)
    \/ Tick(IdleWindow, MaxIdleTicks)

SpecIdle ==
    /\ Init /\ [][NextIdle]_vars
    /\ WF_vars(Handlers)
    /\ \A c \in {ConnOrder[1], ConnOrder[2]} : WF_vars(ProbeFails(c))

(* One jam from its creation to the host's leave: connection attempts     *)
(* under a good and a bad name, a frame of any type from any participant,  *)
(* and leaves                                                                *)
GoneNames == {NameOf(ConnOrder[2]), BangName}

GoneTypes ==
    {"host_update", "host_init", "song_change", "playlist_update", "chat_message",
     "sync_request", "host_seek", "host_ended", "heartbeat", "bogus"}

GoneFrames == {Plain(t) : t \in GoneTypes} \cup {Malformed, NonObject}

NextGone ==
    \/ nextJam = 1 /\ CreateJam(IdOrder[1], Ann)
    \/ \E c \in Conns, name \in GoneNames : Arrives(c, 2) /\ Join(c, "j1", name)
    \/ \E c \in Conns : Step(c)
    \/ \E c \in Conns, m \in GoneFrames : ClientSend(c, m, MaxPairSends)
    \/ \E c \in Conns : Receive(c)
    \/ \E c \in Conns : ClientClose(c)
    \/ \E c \in Conns : Disconnect(c)
    \/ \E c \in Conns : ReceiveOnClosed(c)

SpecGone == Init /\ [][NextGone]_vars

(* The host sets a playlist and reports the end of song after song.  Two  *)
(* of the playlists carry the same track id twice: once as the same entry  *)
(* again, once as another entry of that id.                                 *)
SongA2 == [id |-> 1, title |-> "x"]

LoopPlaylists ==
    {<<SongA>>, <<SongA, SongB>>, <<SongA, SongB, SongC>>,
     <<SongA, SongB, SongA>>, <<SongA, SongA2, SongB>>}

LoopFrames ==
    {Plain("host_ended")} \cup
    {[Plain("playlist_update") EXCEPT !.has = {"playlist"}, !.playlist = p] :
        p \in LoopPlaylists}

NextLoop ==
    \/ nextJam = 1 /\ CreateJam(IdOrder[1], Ann)
    \/ \E c \in Conns : Arrives(c, 2) /\ Join(c, "j1", NameOf(c))
    \/ \E c \in Conns : Step(c)
    \/ \E m \in LoopFrames : ClientSend(ConnOrder[1], m, MaxLoopSends)
    \/ \E c \in Conns : Receive(c)

SpecLoop == Init /\ [][NextLoop]_vars

----------------------------------------------------------------------------
(* Properties *)

Allocated == 1..(nextJam - 1)
Live == InRegistry(St)
Members(o) == {c \in Conns : h[c].jam = o /\ h[c].role # "none"}

(* C1: in every jam the connection that was accepted first holds the host   *)
(* role and every connection accepted later is a guest, so no two           *)
(* connections are host of the same jam, whatever the interleaving.          *)
C1_FirstIsHost ==
    \A o \in Allocated :
        /\ Members(o) = Range(jams[o].joined)
        /\ \A c \in Members(o) : (h[c].role = "host") <=> (jams[o].joined[1] = c)
        /\ Cardinality({c \in Members(o) : h[c].role = "host"}) <= 1

(* three connections accepted into one jam while a handler is in a broadcast *)
C1_Witness ==
    \E o \in Allocated :
        /\ Len(jams[o].joined) = 3
        /\ h[jams[o].joined[1]].role = "host"
        /\ \E c \in Conns : h[c].pc \in {"bc_host", "bc"}

(* C2: once the host's disconnect has been handled for a jam that was in    *)
(* the registry, every guest the jam had when the host disconnected has     *)
(* been sent jam_ended exactly once, the jam is not in the registry and     *)
(* get_jam_playlist answers 404 for its id.                                  *)
C2_HostDeparture ==
    \A c \in Conns :
        (h[c].role = "host" /\ h[c].pc = "done" /\ h[c].jam_local # NoJam) =>
            /\ \A g \in Range(h[c].left_with) : sent[g].n["jam_ended"] = 1
            /\ h[c].jam_local \notin Live
            /\ get_jam_playlist(St, h[c].jam_id).status = 404

(* a host with two guests has left *)
C2_Witness ==
    \E c \in Conns :
        /\ h[c].role = "host" /\ h[c].pc = "done"
        /\ Len(h[c].left_with) = 2
        /\ \A g \in Range(h[c].left_with) : sent[g].n["jam_ended"] = 1

(* C3: every guest whose socket the host's teardown closed had been sent    *)
(* jam_ended before, also a guest that joined during the teardown.           *)
C3_NoticeBeforeClose ==
    \A g \in Conns :
        sent[g].last["close"].type = "close"
        /\ sent[g].last["close"].reason = "Host disconnected"
            => sent[g].last["close"].noticed

(* A step in which the handler of c takes the frame at the head of its inbox *)
Handling(c) ==
    /\ h[c].pc = "loop"
    /\ inbox[c] # <<>>
    /\ inbox'[c] = Tail(inbox[c])

Playback(J) == <<J.current_song, J.playlist, J.is_playing, J.position, J.volume>>

DrivingTypes == {"host_update", "song_change", "playlist_update", "host_seek", "host_ended"}

(* the effect the frame data is to have on a jam that goes from J to K *)
Applied(data, J, K) ==
    CASE data.type = "host_update" ->
            (J.accepted = <<>> \/ now - J.accepted[Len(J.accepted)] >= ThrottleWindow)
                => K.is_playing = data.is_playing /\ K.position = data.position
      [] data.type = "song_change" ->
            K.current_song = data.song /\ K.is_playing /\ K.position = 0
      [] data.type = "playlist_update" -> K.playlist = data.playlist
      [] data.type = "host_seek" -> K.position = data.position
      [] data.type = "host_ended" ->
            J.playlist # <<>> =>
                K.current_song \in Range(J.playlist) /\ K.is_playing /\ K.position = 0
      [] data.type = "host_init" ->
            Playback(K) = <<data.song, data.playlist, data.is_playing,
                            data.position, data.volume>>
      [] OTHER -> TRUE

(* the frame type that tells the guests of the effect of data *)
Echo(data) ==
    CASE data.type = "host_update" -> "sync"
      [] data.type = "host_seek" -> "seek"
      [] data.type = "host_ended" -> "song_change"
      [] data.type = "host_init" -> "participants_update"
      [] OTHER -> data.type

(* the step changes J to K and sends the first guest of the jam its echo *)
Changes(data, J, K) == Playback(K) # Playback(J)

(* C4, as claimed: a driving frame is applied whoever sends it, host or guest. *)
C4_AnyoneDrives ==
    [][\A c \in Conns :
          (Handling(c) /\ h[c].role # "none"
           /\ Head(inbox[c]).type \in DrivingTypes)
              => Applied(Head(inbox[c]), jams[h[c].jam], jams'[h[c].jam])]_vars

(* C4, amended: host_update, song_change, playlist_update, host_seek,       *)
(* host_ended and host_init are applied, and echoed to the guests, when the *)
(* host sends them; sent by a guest they change no jam and nothing is sent. *)
C4_HostDrives ==
    [][\A c \in Conns :
          (Handling(c) /\ Head(inbox[c]).type \in DrivingTypes \cup {"host_init"})
              => LET data == Head(inbox[c])
                     o == h[c].jam
                 IN  IF h[c].role = "host"
                     THEN /\ Applied(data, jams[o], jams'[o])
                          /\ (Changes(data, jams[o], jams'[o]) /\ jams[o].guests # <<>>
                              /\ data.type # "host_init")
                                => sent'[jams[o].guests[1]].n[Echo(data)]
                                     = sent[jams[o].guests[1]].n[Echo(data)] + 1
                          /\ data.type = "host_init"
                                => sent'[c].n[Echo(data)] = sent[c].n[Echo(data)] + 1
                     ELSE /\ \A p \in Allocated : Playback(jams'[p]) = Playback(jams[p])
                          /\ sent' = sent]_vars

(* a guest's driving frame and a host's driving frame have both been handled *)
C4_Witness ==
    \E c, d \in Conns :
        /\ h[c].role = "guest" /\ h[c].seen.type \in DrivingTypes
        /\ h[d].role = "host" /\ h[d].seen.type \in DrivingTypes
        /\ h[c].jam = h[d].jam

(* C5: two accepted host_update frames of a jam are at least 50 ms apart,   *)
(* and a host_update that arrives less than 50 ms after the last accepted   *)
(* one changes no playback field, sends nothing and closes no socket.       *)
C5_Spaced ==
    \A o \in Allocated :
        \A i \in 1..(Len(jams[o].accepted) - 1) :
            jams[o].accepted[i + 1] - jams[o].accepted[i] >= ThrottleWindow

C5_Dropped ==
    \A c \in Conns :
        LET o == h[c].jam
            acc == jams[o].accepted
        IN  (Handling(c) /\ h[c].role = "host"
             /\ Head(inbox[c]).type = "host_update"
             /\ acc # <<>> /\ now - acc[Len(acc)] < ThrottleWindow)
                => /\ Playback(jams'[o]) = Playback(jams[o])
                   /\ jams'[o].last_update_time = jams[o].last_update_time
                   /\ sent' = sent
                   /\ ws' = ws

C5_Throttle == []C5_Spaced /\ [][C5_Dropped]_vars

(* the host's last frame came less than 50 ms after the last accepted one   *)
(* and was not accepted                                                      *)
C5_Witness ==
    \E c \in Conns :
        LET acc == jams[h[c].jam].accepted IN
        /\ h[c].role = "host" /\ h[c].seen.type = "host_update"
        /\ acc # <<>>
        /\ h[c].seen.at > acc[Len(acc)]
        /\ h[c].seen.at - acc[Len(acc)] < ThrottleWindow
        /\ ws[c] = "open"

C7_NoFrames ==
    sw.pc = "sleep" =>
        \A o \in Allocated :
            (sw.scan[o].live /\ sw.scan[o].msg > SessionTimeout) => o \notin Live

(* C7, amended: a jam that for more than 300 s before a scan had no parsed   *)
(* frame and no accepted connection (or creation) is out of the registry     *)
(* when that sweep is over, and a jam that left the registry stays out; a    *)
(* jam nobody ever joined is included.                                        *)
C7_Removed ==
    sw.pc = "sleep" =>
        \A o \in Allocated :
            (sw.scan[o].live /\ sw.scan[o].act > SessionTimeout) => o \notin Live

C7_StaysAbsent == \A o \in Allocated : o \notin Live => o \notin Live'

C7_Evicted == []C7_Removed /\ [][C7_StaysAbsent]_vars

(* the sweep removed a jam nobody had joined *)
C7_Witness ==
    \E o \in sw.evicted :
        /\ jams[o].joined = <<>>
        /\ sw.scan[o].act > SessionTimeout
        /\ sw.pc = "sleep"
        /\ o \notin Live

(* C8, as claimed: once the sweep has removed a jam, no connection of the    *)
(* jam, the host's included, is still open.                                  *)
C8_AllClosed == \A o \in sw.evicted : \A c \in Members(o) : ws[c] # "open"

(* C9, as claimed: every parsed frame, a guest's as well as the host's, sets *)
(* the jam's last_heartbeat to the current time, so the sweep never removes  *)
(* a jam whose last parsed frame is at most 300 s old.                        *)
Parsed(c) == Handling(c) /\ Head(inbox[c]).kind # "malformed" /\ h[c].role # "none"

C9_AnyFrame ==
    \A c \in Conns : Parsed(c) => jams'[h[c].jam].last_heartbeat = now

C9_AnyoneKeepsAlive ==
    /\ [][C9_AnyFrame]_vars
    /\ [](sw.last_pop.jam # NoJam => sw.last_pop.at - sw.last_pop.msg > SessionTimeout)

(* C9, amended: a parsed frame of the host sets the jam's last_heartbeat to  *)
(* the current time; a parsed frame of a guest leaves it unchanged and sets  *)
(* that guest's own last_heartbeat; the scan never selects a jam whose host  *)
(* sent a frame within the last 300 s.                                        *)
C9_HostFrame ==
    \A c \in Conns :
        Parsed(c) =>
            LET o == h[c].jam IN
            IF h[c].role = "host"
            THEN jams'[o].last_heartbeat = now
            ELSE /\ jams'[o].last_heartbeat = jams[o].last_heartbeat
                 /\ c \in Range(jams[o].guests) => h'[c].last_heartbeat = now

C9_Selected == \A o \in sw.picked : sw.scan[o].host_msg > SessionTimeout

C9_HostKeepsAlive == [][C9_HostFrame]_vars /\ []C9_Selected

(* a guest's frame was handled after the jam's last refresh, and a scan      *)
(* selected the jam although that frame was less than 300 s old              *)
C9_Witness ==
    \E c, d \in Conns :
        LET o == h[c].jam IN
        /\ h[c].role = "guest" /\ h[d].role = "host" /\ h[d].jam = o
        /\ h[d].seen.type # "none"
        /\ h[c].seen.at > jams[o].last_heartbeat
        /\ o \in sw.picked
        /\ sw.scan[o].msg <= SessionTimeout

(* C10, as claimed: when the sweep pops a jam, the jam's last_heartbeat is   *)
(* more than 300 s old at that moment.                                        *)
C10_StaleAtPop ==
    sw.last_pop.jam # NoJam =>
        sw.last_pop.at - sw.last_pop.hb > SessionTimeout

(* A step of create_jam *)
Creating == nextJam' = nextJam + 1

(* C11, as claimed: create_jam returns an id under which the registry holds *)
(* no session, and leaves every session of the registry in place.            *)
C11_FreshId ==
    [][Creating =>
          \A id \in JamIds :
              active_jams[id] # NoJam => active_jams'[id] = active_jams[id]]_vars

(* A step in which the handler of c runs from accept to its first await *)
Joining(c) == h[c].pc = "new" /\ h'[c].pc # "new"

(* C12: a connection attempt under the name of a guest already in the jam   *)
(* is closed with code 1008, gets no role, and leaves the guest list and    *)
(* the guests' sockets as they were; the guests of a jam have pairwise      *)
(* different names.                                                           *)
C12_DistinctGuests ==
    \A o \in Allocated :
        \A i, j \in 1..Len(jams[o].guests) :
            i # j => h[jams[o].guests[i]].username # h[jams[o].guests[j]].username

C12_Refused ==
    \A c \in Conns :
        LET o == active_jams[h'[c].jam_id] IN
        (/\ Joining(c)
         /\ o # NoJam
         /\ \E g \in Range(jams[o].guests) : h[g].username = h'[c].username)
            => /\ ws'[c] = "closed"
               /\ sent'[c].last["close"].code = 1008
               /\ h'[c].role = "none"
               /\ jams'[o].guests = jams[o].guests
               /\ \A g \in Range(jams[o].guests) : ws'[g] = ws[g]

C12_NameTaken == []C12_DistinctGuests /\ [][C12_Refused]_vars

(* an attempt was refused for its name while the guest holding the name is  *)
(* in the list with its socket open                                          *)
C12_Witness ==
    \E c, g \in Conns :
        /\ sent[c].last["close"].type = "close"
        /\ sent[c].last["close"].reason = "Username already taken"
        /\ h[g].role = "guest" /\ h[g].username = h[c].username
        /\ h[c].jam # NoJam /\ g \in Range(jams[h[c].jam].guests)
        /\ ws[g] = "open"

(* C13, as claimed: no guest of a jam has the name of the jam's host. *)
C13_NotHostName ==
    \A o \in Allocated :
        jams[o].host_ws # NoWs =>
            \A g \in Range(jams[o].guests) : h[g].username # jams[o].host_name

(* The names the claims admit: 3 to 20 characters, each a letter, a digit,  *)
(* a space, a hyphen or an underscore.                                       *)
Letters == {"a", "b", "m", "n", "o", "t"}

Digits == {"1"}

Admissible(name) ==
    /\ Len(name) >= 3 /\ Len(name) <= 20
    /\ \A i \in 1..Len(name) : name[i] \in Letters \cup Digits \cup {" ", "-", "_"}

(* C19: a connection attempt that names no session of the registry, or      *)
(* whose name is not admissible, is closed with code 1008, gets no role,    *)
(* and leaves the registry and every jam as they were; a connection closed  *)
(* with 1008 never holds a role.                                              *)
C19_Refused ==
    \A c \in Conns :
        (Joining(c) /\ (active_jams[h'[c].jam_id] = NoJam \/ ~Admissible(h'[c].username)))
            => /\ ws'[c] = "closed"
               /\ sent'[c].last["close"].code = 1008
               /\ sent'[c].first = "close"
               /\ h'[c].role = "none"
               /\ active_jams' = active_jams
               /\ jams' = jams

C19_NoRole ==
    \A c \in Conns :
        (sent[c].last["close"].type = "close" /\ sent[c].last["close"].code = 1008)
            => /\ h[c].role = "none"
               /\ \A o \in Allocated : jams[o].host_ws # c /\ c \notin Range(jams[o].guests)

C19_Rejected == [][C19_Refused]_vars /\ []C19_NoRole

(* one attempt was refused for its name and one for its session id, while   *)
(* an attempt under a name with a space, a hyphen and an underscore was     *)
(* accepted                                                                   *)
C19_Witness ==
    \E c, d \in Conns :
        /\ sent[c].last["close"].type = "close"
        /\ sent[c].last["close"].reason \in {"Invalid username", "Jam session not found"}
        /\ h[c].role = "none"
        /\ h[d].role # "none" /\ h[d].username = OddName

(* A step in which the fan-out of c's broadcast goes on or returns *)
FanOutStep(c) ==
    /\ h[c].pc = "bc"
    /\ h'[c].pc # "bc" \/ h'[c].it.idx # h[c].it.idx

(* C14: while a broadcast has guests of its list left, its next step is a   *)
(* delivery attempt of the same message to the next one, whatever happened  *)
(* to the sends before; it returns only after the last guest of the list,   *)
(* and then the sender's handler goes on as its caller says, its socket     *)
(* untouched.  Every guest the fan-out has passed was attempted.             *)
C14_Goes ==
    \A c \in Conns :
        FanOutStep(c) =>
            LET it == h[c].it IN
            IF it.idx < Len(it.list)
            THEN LET g == it.list[it.idx + 1] IN
                 /\ h'[c].pc = "bc"
                 /\ sent'[g].last[it.msg.type] = it.msg
                 /\ sent'[g].n[it.msg.type] >= sent[g].n[it.msg.type]
                 /\ sent'[g].n[it.msg.type] > 0
            ELSE /\ ws'[c] = ws[c] \/ h[c].k = "teardown"
                 /\ h[c].k = "loop" => h'[c].pc \in {"loop", "loop_closed"}
                 /\ h[c].k = "done" => h'[c].pc = "done"

C14_Attempted ==
    \A c \in Conns :
        h[c].pc = "bc" =>
            \A i \in 1..h[c].it.idx : sent[h[c].it.list[i]].n[h[c].it.msg.type] > 0

C14_FanOut == [][C14_Goes]_vars /\ []C14_Attempted

(* a broadcast whose send to one guest raised has attempted a later guest *)
C14_Witness ==
    \E c \in Conns :
        LET it == h[c].it IN
        /\ h[c].pc = "bc"
        /\ \E i, j \in 1..it.idx :
              i < j /\ it.list[i] \in it.failed /\ it.list[j] \notin it.failed
                    /\ sent[it.list[j]].last[it.msg.type] = it.msg

(* C15, as claimed: when a broadcast returns, the jam's guest list holds no *)
(* guest to whom a send of that broadcast raised.                            *)
C15_Pruned ==
    [][\A c \in Conns :
          (h[c].pc = "bc" /\ h'[c].pc # "bc")
              => \A g \in h[c].it.failed : g \notin Range(jams'[h[c].it.jam].guests)]_vars

(* C18, as claimed: a frame that is no JSON, no JSON object, or an object of *)
(* a missing or unknown type changes no playback state, sends nothing to    *)
(* anyone, closes nothing, and leaves the handler in its receive loop.       *)
KnownTypes ==
    {"host_update", "host_init", "song_change", "playlist_update", "chat_message",
     "sync_request", "host_seek", "host_ended", "heartbeat"}

C18_Ignored ==
    [][\A c \in Conns :
          (Handling(c) /\ h[c].role # "none"
           /\ (Head(inbox[c]).kind # "object" \/ Head(inbox[c]).type \notin KnownTypes))
              => /\ \A o \in Allocated : Playback(jams'[o]) = Playback(jams[o])
                 /\ sent' = sent
                 /\ ws' = ws
                 /\ h'[c].pc = "loop"]_vars

(* C16: the first frame sent to an accepted connection is an initial_sync   *)
(* that carries the jam's current song, playlist, playing flag, position    *)
(* and volume as they are at the join, the host's name and the guests'      *)
(* names, and you_are_host = TRUE exactly for the connection made host.     *)
C16_Snapshot ==
    \A c \in Conns :
        (Joining(c) /\ h'[c].role # "none") =>
            LET o == h'[c].jam
                m == sent'[c].last["initial_sync"]
            IN  /\ sent'[c].first = "initial_sync"
                /\ m.type = "initial_sync"
                /\ <<m.current_song, m.playlist, m.is_playing, m.position, m.volume>>
                       = Playback(jams[o])
                /\ Playback(jams'[o]) = Playback(jams[o])
                /\ m.host = jams'[o].host_name
                /\ m.guests = [i \in 1..Len(jams'[o].guests) |->
                                  h'[jams'[o].guests[i]].username]
                /\ m.you_are_host = (h'[c].role = "host")
                /\ (h'[c].role = "host") = (jams[o].host_ws = NoWs)

C16_InitialSync == [][C16_Snapshot]_vars

(* a guest that joined after the host's song_change to SongA got SongA *)
C16_Witness ==
    \E c, d \in Conns :
        /\ h[d].role = "host" /\ h[d].seen.type = "song_change"
        /\ h[c].role = "guest" /\ h[c].jam = h[d].jam
        /\ sent[c].last["initial_sync"].type = "initial_sync"
        /\ sent[c].last["initial_sync"].current_song = SongA
        /\ ~sent[c].last["initial_sync"].you_are_host

(* C17: a playlist_update of the host makes the jam's playlist the one of   *)
(* the frame, whatever it was before, so a second application changes       *)
(* nothing; the frame sent on to the guests carries that very playlist, and *)
(* every guest the fan-out has passed holds it as its last playlist_update. *)
C17_Applied ==
    \A c \in Conns :
        (Handling(c) /\ h[c].role = "host" /\ Head(inbox[c]).type = "playlist_update"
         /\ "playlist" \in Head(inbox[c]).has) =>
            LET data == Head(inbox[c])
                o == h[c].jam
            IN  /\ jams'[o].playlist = data.playlist
                /\ jams[o].playlist = data.playlist => Playback(jams'[o]) = Playback(jams[o])
                /\ (o \in Live /\ jams[o].guests # <<>>) =>
                       sent'[jams[o].guests[1]].last["playlist_update"].playlist
                           = data.playlist

C17_Delivered ==
    \A c \in Conns :
        (h[c].pc = "bc" /\ h[c].it.msg.type = "playlist_update") =>
            /\ h[c].it.msg.playlist = jams[h[c].it.jam].playlist
            /\ \A i \in 1..h[c].it.idx :
                   sent[h[c].it.list[i]].last["playlist_update"] = h[c].it.msg

C17_Idempotent == [][C17_Applied]_vars /\ []C17_Delivered

(* the same playlist_update was applied twice and a guest was sent it twice *)
C17_Witness ==
    \E c, g \in Conns :
        /\ h[c].role = "host" /\ h[c].pc = "loop" /\ h[g].role = "guest"
        /\ h[g].jam = h[c].jam
        /\ sent[g].n["playlist_update"] = 2
        /\ sent[g].last["playlist_update"].playlist = jams[h[c].jam].playlist
        /\ jams[h[c].jam].playlist = <<SongA, SongB>>

(* C20, as claimed: a connection whose handler has ended is neither the     *)
(* host reference nor in the guest list of a jam of the registry.            *)
C20_NoClosedMember ==
    \A c \in Conns :
        h[c].pc = "done" =>
            \A o \in Live : jams[o].host_ws # c /\ c \notin Range(jams[o].guests)

(* C21, as claimed: once the handler of a jam's host has ended, whatever     *)
(* ended it, the jam is not in the registry.                                  *)
C21_HostGone ==
    \A c \in Conns :
        (h[c].role = "host" /\ h[c].pc = "done") => h[c].jam \notin Live

(* The guests of jam o under a name whose disconnect has been handled *)
Departed(o, name) ==
    {d \in Conns : /\ h[d].jam = o /\ h[d].role = "guest" /\ h[d].username = name
                   /\ h[d].pc = "done" /\ h[d].jam_local = o}

(* C22, as claimed: a connection to a jam of the registry under the name of *)
(* a guest whose disconnect has been handled, and of no other guest, is     *)
(* accepted as a guest, also when a broadcast was in flight at the          *)
(* disconnect.                                                                *)
C22_Reconnect ==
    [][\A c \in Conns :
          LET o == active_jams[h'[c].jam_id]
              name == h'[c].username
          IN  (/\ Joining(c)
               /\ o # NoJam
               /\ ~HostAbsent(jams[o])
               /\ Departed(o, name) # {}
               /\ \A d \in Conns \ {c} :
                      (h[d].jam = o /\ h[d].role = "guest" /\ h[d].username = name)
                          => d \in Departed(o, name))
                  => /\ h'[c].role = "guest"
                     /\ ws'[c] = "open"
                     /\ c \in Range(jams'[o].guests)]_vars

(* C23, as claimed: a step in which the handling of a frame of c ends in    *)
(* the internal-error close closes the socket of c with 1011 and no other,  *)
(* and leaves the registry, the playback state and the playlist of the jam  *)
(* as they were.                                                              *)
C23_Isolated ==
    [][\A c \in Conns :
          (/\ Handling(c)
           /\ h'[c].pc = "done"
           /\ sent'[c].n["close"] > sent[c].n["close"])
              => /\ ws'[c] = "closed"
                 /\ sent'[c].last["close"].code = 1011
                 /\ active_jams' = active_jams
                 /\ Playback(jams'[h[c].jam]) = Playback(jams[h[c].jam])
                 /\ \A d \in Conns \ {c} : ws'[d] = ws[d]]_vars

(* the broadcast that follows a change of the session, built from jam J *)
Payload(type, J) ==
    CASE type = "sync" ->
            [type |-> "sync", song |-> J.current_song, is_playing |-> J.is_playing,
             position |-> J.position, volume |-> J.volume]
      [] type = "song_change" ->
            [type |-> "song_change", song |-> J.current_song,
             is_playing |-> J.is_playing, position |-> J.position]
      [] type = "seek" -> [type |-> "seek", position |-> J.position]
      [] OTHER -> [type |-> "playlist_update", playlist |-> J.playlist]

(* the playback state of J after the whole of frame data has been applied *)
Whole(data, J) ==
    CASE data.type = "host_update" ->
            <<J.current_song, J.playlist, data.is_playing, data.position, J.volume>>
      [] data.type = "song_change" ->
            <<data.song, J.playlist, TRUE, 0, J.volume>>
      [] data.type = "playlist_update" ->
            <<J.current_song, data.playlist, J.is_playing, J.position, J.volume>>
      [] data.type = "host_seek" ->
            <<J.current_song, J.playlist, J.is_playing, data.position, J.volume>>
      [] OTHER -> Playback(J)

(* C24: the playback state of a jam changes only in the step that handles a *)
(* frame of its host, and then to the state with the whole of that frame    *)
(* applied; the payload of a sync, song_change, seek or playlist_update     *)
(* broadcast is built from the jam's state right after that change, and as  *)
(* long as the broadcast is in flight the jam's state is the payload's and  *)
(* every guest it has reached was sent that payload, whatever the other     *)
(* handlers of the jam do meanwhile.                                          *)
C24_Atomic ==
    \A o \in Allocated :
        Playback(jams'[o]) # Playback(jams[o]) =>
            \E c \in Conns :
                /\ Handling(c) /\ h[c].role = "host" /\ h[c].jam = o
                /\ Playback(jams'[o]) = Whole(Head(inbox[c]), jams[o])
                /\ jams[o].guests # <<>> =>
                      /\ h'[c].pc = "bc"
                      /\ h'[c].it.msg = Payload(h'[c].it.msg.type, jams'[o])
                      /\ h'[c].it.msg.type = Echo(Head(inbox[c]))

C24_InFlight ==
    \A c \in Conns :
        (h[c].pc = "bc"
         /\ h[c].it.msg.type \in {"sync", "song_change", "seek", "playlist_update"})
            => /\ h[c].it.msg = Payload(h[c].it.msg.type, jams[h[c].it.jam])
               /\ \A i \in 1..h[c].it.idx :
                      sent[h[c].it.list[i]].last[h[c].it.msg.type] = h[c].it.msg

C24_Serialized == [][C24_Atomic]_vars /\ []C24_InFlight

(* the broadcast of a change of the host is in flight between two guests   *)
(* while the handler of a guest is about to take a song_change of its own  *)
C24_Witness ==
    \E c, g \in Conns :
        /\ h[c].role = "host" /\ h[c].pc = "bc"
        /\ h[c].it.msg.type \in {"sync", "song_change", "seek", "playlist_update"}
        /\ h[c].it.idx = 1 /\ Len(h[c].it.list) = 2
        /\ h[g].role = "guest" /\ h[g].jam = h[c].jam
        /\ h[g].pc = "loop" /\ inbox[g] # <<>>
        /\ Head(inbox[g]).type = "song_change"

(* A step of the handler of c, or the arrival of a frame for it *)
Acting(c) ==
    \/ h'[c].pc # h[c].pc
    \/ h'[c].it.idx # h[c].it.idx
    \/ inbox'[c] # inbox[c]

Following(P, cur) ==
    IF cur = NoSong \/ \A i \in 1..Len(P) : P[i].id # cur.id THEN 1
    ELSE LET i == CHOOSE k \in 1..Len(P) :
                      /\ P[k].id = cur.id
                      /\ \A j \in 1..(k - 1) : P[j].id # cur.id
         IN  IF i = Len(P) THEN 1 ELSE i + 1

Returning(c, typ, echo) ==
    /\ h[c].pc = "bc" /\ h'[c].pc # "bc"
    /\ h[c].seen.type = typ
    /\ h[c].it.msg.type = echo

(* C27, as claimed: when the song_change broadcast of a host_ended returns, *)
(* every participant of the jam, the sender included, has been sent it.      *)
C27_AllParticipants ==
    [][\A c \in Conns :
          Returning(c, "host_ended", "song_change") =>
              \A p \in Members(h[c].jam) :
                  sent'[p].last["song_change"] = h[c].it.msg]_vars

(* C27, amended: the song_change that follows an accepted host_ended is    *)
(* sent to every guest of the jam, starting with the jam's guest list, and *)
(* the sender, the host, is sent no copy.                                    *)
C27_Start ==
    \A c \in Conns :
        LET o == h[c].jam IN
        (/\ Handling(c) /\ h[c].role = "host"
         /\ Head(inbox[c]).type = "host_ended"
         /\ jams[o].playlist # <<>>)
            => /\ sent'[c] = sent[c]
               /\ jams[o].guests # <<>> =>
                     /\ h'[c].pc = "bc"
                     /\ h'[c].it.list = jams[o].guests
                     /\ h'[c].it.msg.type = "song_change"
                     /\ h'[c].it.msg.song = jams'[o].current_song

C27_Return ==
    \A c \in Conns :
        Returning(c, "host_ended", "song_change") =>
            /\ \A g \in Range(h[c].it.list) :
                   sent'[g].last["song_change"] = h[c].it.msg
            /\ sent'[c] = sent[c]

C27_HostGetsNone ==
    \A c \in Conns : h[c].role = "host" => sent[c].n["song_change"] = 0

C27_GuestsOnly == [][C27_Start /\ C27_Return]_vars /\ []C27_HostGetsNone

(* the host's host_ended has been handled and its broadcast has returned:  *)
(* both guests hold the song_change with the next song, the host none       *)
C27_Witness ==
    \E c, g1, g2 \in Conns :
        /\ h[c].role = "host" /\ h[c].seen.type = "host_ended" /\ h[c].pc = "loop"
        /\ g1 # g2 /\ jams[h[c].jam].guests = <<g1, g2>>
        /\ jams[h[c].jam].playlist = <<SongA, SongB>>
        /\ jams[h[c].jam].current_song = SongA
        /\ sent[g1].last["song_change"] = sent[g2].last["song_change"]
        /\ sent[g1].last["song_change"].type = "song_change"
        /\ sent[g1].last["song_change"].song = SongA
        /\ sent[c].n["song_change"] = 0

(* C28: song_change of the host sets the current song to the given track,  *)
(* is_playing to true and position to 0 and leaves playlist and volume; a  *)
(* song_change with that track goes to every guest the jam has then, and   *)
(* the sender is sent no copy.                                               *)
C28_Start ==
    \A c \in Conns :
        LET o == h[c].jam
            data == Head(inbox[c])
        IN  (Handling(c) /\ h[c].role = "host" /\ data.type = "song_change")
                => /\ Playback(jams'[o]) =
                          <<data.song, jams[o].playlist, TRUE, 0, jams[o].volume>>
                   /\ sent'[c] = sent[c]
                   /\ jams[o].guests # <<>> =>
                         /\ h'[c].pc = "bc"
                         /\ h'[c].it.list = jams[o].guests
                         /\ h'[c].it.msg = [type |-> "song_change", song |-> data.song,
                                            is_playing |-> TRUE, position |-> 0]

C28_Goes ==
    \A c \in Conns :
        (h[c].pc = "bc" /\ h[c].seen.type = "song_change"
         /\ h[c].it.msg.type = "song_change")
            => /\ sent'[c].n["song_change"] = 0
               /\ h'[c].pc = "bc" =>
                     /\ h'[c].it.msg = h[c].it.msg
                     /\ Range(h[c].it.list) \subseteq Range(h'[c].it.list)
               /\ h'[c].pc # "bc" =>
                     \A g \in Range(h[c].it.list) :
                         sent'[g].last["song_change"] = h[c].it.msg

C28_SongChange == [][C28_Start /\ C28_Goes]_vars

(* the host's song_change has been handled and its broadcast has returned: *)
(* the jam plays the given track from 0 with the playlist and the volume   *)
(* it had, both guests hold the song_change, the host none                   *)
C28_Witness ==
    \E c, g1, g2 \in Conns :
        /\ h[c].role = "host" /\ h[c].seen.type = "song_change" /\ h[c].pc = "loop"
        /\ g1 # g2 /\ jams[h[c].jam].guests = <<g1, g2>>
        /\ Playback(jams[h[c].jam]) = <<SongC, <<SongA, SongB>>, TRUE, 0, 4>>
        /\ sent[g1].last["song_change"].type = "song_change"
        /\ sent[g1].last["song_change"].song = SongC
        /\ sent[g2].last["song_change"] = sent[g1].last["song_change"]
        /\ sent[c].n["song_change"] = 0

(* the fields of a jam the program keeps, the histories left out *)
Session(J) ==
    <<J.host_ws, J.host_name, J.guests, Playback(J), J.created_at,
      J.last_update_time, J.last_heartbeat>>

(* C29: host_init of the host sets current song, playlist, playing flag,   *)
(* position and volume of the jam to the frame's; host_init of a guest     *)
(* changes no jam, leaves the registry, and nothing is sent.                 *)
C29_HostInit ==
    [][\A c \in Conns :
          LET o == h[c].jam
              data == Head(inbox[c])
          IN  (Handling(c) /\ data.type = "host_init")
                  => IF h[c].role = "host"
                     THEN Playback(jams'[o]) =
                              <<data.song, data.playlist, data.is_playing,
                                data.position, data.volume>>
                     ELSE /\ \A p \in Allocated : Session(jams'[p]) = Session(jams[p])
                          /\ active_jams' = active_jams
                          /\ sent' = sent
                          /\ ws' = ws
                          /\ h'[c].pc = "loop"]_vars

(* a host_init of the host has set all five fields, and a host_init of a   *)
(* guest has been handled                                                     *)
C29_Witness ==
    \E c, g \in Conns :
        /\ h[c].role = "host" /\ h[c].seen.type = "host_init"
        /\ h[g].role = "guest" /\ h[g].seen.type = "host_init" /\ h[g].jam = h[c].jam
        /\ inbox[g] = <<>> /\ inbox[c] = <<>>
        /\ Playback(jams[h[c].jam]) = <<SongB, <<SongB>>, TRUE, 3, 4>>

(* C30, as claimed: once the host's host_init has been handled and its     *)
(* broadcast has returned, every guest of the jam holds an initial_sync    *)
(* with the song, playlist, playing flag, position and volume the frame    *)
(* set, and the host has been sent no initial_sync but the one of its join. *)
C30_Resync ==
    \A c \in Conns :
        (h[c].role = "host" /\ h[c].seen.type = "host_init" /\ h[c].pc = "loop")
            => LET J == jams[h[c].jam] IN
               /\ \A g \in Range(J.guests) :
                      LET m == sent[g].last["initial_sync"] IN
                      /\ m.type = "initial_sync"
                      /\ <<m.current_song, m.playlist, m.is_playing, m.position,
                           m.volume>> = Playback(J)
               /\ sent[c].n["initial_sync"] = 1

(* the step leaves host, guest list, playback state and playlist of every  *)
(* jam and the registry as they were                                         *)
Untouched ==
    /\ active_jams' = active_jams
    /\ \A p \in Allocated :
           /\ Playback(jams'[p]) = Playback(jams[p])
           /\ jams'[p].guests = jams[p].guests
           /\ jams'[p].host_ws = jams[p].host_ws
           /\ jams'[p].host_name = jams[p].host_name

(* C31, as claimed: a sync_request of any participant, host or guest, is   *)
(* answered with one sync to the requesting connection and to no other.     *)
C31_AnyoneIsAnswered ==
    [][\A c \in Conns :
          (Handling(c) /\ Head(inbox[c]).type = "sync_request")
              => /\ Untouched
                 /\ sent'[c].n["sync"] = sent[c].n["sync"] + 1
                 /\ \A d \in Conns \ {c} : sent'[d] = sent[d]]_vars

(* C31, amended: a sync_request changes no jam; sent by a guest it is      *)
(* answered with one sync carrying the jam's current song, playing flag,   *)
(* position and volume, sent to the requester and to no other connection;  *)
(* sent by the host it is answered with nothing.                             *)
C31_GuestIsAnswered ==
    [][\A c \in Conns :
          (Handling(c) /\ Head(inbox[c]).type = "sync_request")
              => LET J == jams[h[c].jam] IN
                 /\ Untouched
                 /\ ws' = ws
                 /\ h'[c].pc = "loop"
                 /\ \A d \in Conns \ {c} : sent'[d] = sent[d]
                 /\ IF h[c].role = "guest"
                    THEN /\ sent'[c].n["sync"] = sent[c].n["sync"] + 1
                         /\ sent'[c].last["sync"] =
                                [type |-> "sync", song |-> J.current_song,
                                 is_playing |-> J.is_playing,
                                 position |-> J.position, volume |-> J.volume]
                         /\ \A t \in Types \ {"sync"} :
                                sent'[c].n[t] = sent[c].n[t]
                    ELSE sent'[c] = sent[c]]_vars

(* a guest next to another guest asked and holds a sync with the jam's     *)
(* state, the other guest holds none, and the host asked and holds none      *)
C31_Witness ==
    \E c, g, d \in Conns :
        /\ h[c].role = "host" /\ h[c].seen.type = "sync_request"
        /\ sent[c].n["sync"] = 0
        /\ g # d /\ jams[h[c].jam].guests = <<g, d>>
        /\ h[g].seen.type = "sync_request" /\ inbox[g] = <<>>
        /\ sent[g].n["sync"] = 1
        /\ sent[g].last["sync"].song = jams[h[c].jam].current_song
        /\ sent[g].last["sync"].volume = jams[h[c].jam].volume
        /\ sent[d].n["sync"] = 0

(* the text of a chat frame, the empty text when the frame has none *)
TextOf(data) ==
    IF "message" \in data.has THEN data.message ELSE [len |-> 0, stripped |-> 0]

(* the step hands the chat of c with text txt to the host of its jam first *)
ChatBegins(c, txt) ==
    LET J == jams[h[c].jam]
        m == sent'[J.host_ws].last["chat_message"]
    IN  /\ sent'[J.host_ws].n["chat_message"] = sent[J.host_ws].n["chat_message"] + 1
        /\ m.sender = h[c].username /\ m.message = txt
        /\ h'[c].pc = "bc_host" /\ h'[c].it.msg = m

ChatDropped(c) == sent' = sent /\ h'[c].pc = "loop"

(* C32, as claimed: a chat_message is delivered when its text has 1 to 500 *)
(* characters after trimming, and dropped otherwise.                         *)
C32_TrimmedLength ==
    [][\A c \in Conns :
          (Handling(c) /\ Head(inbox[c]).type = "chat_message")
              => LET txt == TextOf(Head(inbox[c])) IN
                 IF txt.stripped >= 1 /\ txt.stripped <= 500
                 THEN ChatBegins(c, txt) ELSE ChatDropped(c)]_vars

(* C32, amended: a chat_message whose text is not blank and has at most    *)
(* 500 characters untrimmed is sent to the host and to every guest of the  *)
(* jam's list, whoever sent it, and its handling changes no playback       *)
(* state, playlist, host or guest list; any other chat_message is dropped  *)
(* with nothing sent, and the sender's socket stays open.                    *)
C32_Start ==
    \A c \in Conns :
        (Handling(c) /\ Head(inbox[c]).type = "chat_message")
            => LET txt == TextOf(Head(inbox[c])) IN
               /\ Untouched
               /\ ws' = ws
               /\ IF txt.stripped >= 1 /\ txt.len <= 500
                  THEN ChatBegins(c, txt) ELSE ChatDropped(c)

C32_Goes ==
    \A c \in Conns :
        (h[c].pc \in {"bc_host", "bc"} /\ h[c].it.msg.type = "chat_message")
            => LET o == h[c].jam IN
               /\ Playback(jams'[o]) = Playback(jams[o])
               /\ ws'[c] = ws[c]
               /\ (h[c].pc = "bc_host" /\ h'[c].pc # "bc_host") =>
                      IF jams[o].guests = <<>> THEN h'[c].pc = "loop"
                      ELSE /\ h'[c].pc = "bc"
                           /\ h'[c].it.list = jams[o].guests
                           /\ h'[c].it.msg = h[c].it.msg
                           /\ h'[c].it.idx = 1
                           /\ sent'[jams[o].guests[1]].last["chat_message"] = h[c].it.msg
               /\ (h[c].pc = "bc" /\ h'[c].pc = "bc") =>
                      /\ h'[c].it.msg = h[c].it.msg
                      /\ Range(h[c].it.list) \subseteq Range(h'[c].it.list)
               /\ (h[c].pc = "bc" /\ h'[c].it.idx # h[c].it.idx) =>
                      IF h[c].it.idx < Len(h[c].it.list)
                      THEN /\ h'[c].pc = "bc"
                           /\ h'[c].it.idx = h[c].it.idx + 1
                           /\ sent'[h[c].it.list[h[c].it.idx + 1]].last["chat_message"]
                                  = h[c].it.msg
                      ELSE h'[c].pc = "loop"

C32_Chat == [][C32_Start /\ C32_Goes]_vars

(* a guest's text of 500 characters has reached the host, the guest itself *)
(* and the other guest                                                        *)
C32_Witness ==
    \E c, d \in Conns :
        /\ h[c].role = "guest" /\ h[c].seen.type = "chat_message" /\ h[c].pc = "loop"
        /\ c # d /\ Range(jams[h[c].jam].guests) = {c, d}
        /\ \A p \in {c, d, jams[h[c].jam].host_ws} :
               /\ sent[p].n["chat_message"] = 1
               /\ sent[p].last["chat_message"].message = Text(500, 500)
               /\ sent[p].last["chat_message"].sender = h[c].username

(* C33, as claimed: the chat_message built for a chat of connection c has  *)
(* is_host true exactly when c holds the host role of its jam.               *)
C33_TagIsRole ==
    [][\A c \in Conns :
          (/\ Handling(c)
           /\ Head(inbox[c]).type = "chat_message"
           /\ h'[c].pc = "bc_host")
              => (h'[c].it.msg.is_host <=> h[c].role = "host")]_vars

(* A step of the broadcast of the handler of c that carries a message of   *)
(* type typ and returns to pc: from the send to the host to the first      *)
(* guest of the jam's list, from each guest of the iterated list to the    *)
(* next, and back to the caller after the last                               *)
FanOut(c, typ, pc) ==
    (h[c].pc \in {"bc_host", "bc"} /\ h[c].it.msg.type = typ /\ Acting(c))
        => LET o == active_jams[h[c].jam_id]
               it == h[c].it
           IN  IF h[c].pc = "bc_host"
               THEN IF o = NoJam \/ jams[o].guests = <<>> THEN h'[c].pc = pc
                    ELSE /\ h'[c].pc = "bc"
                         /\ h'[c].it.list = jams[o].guests
                         /\ h'[c].it.msg = it.msg
                         /\ h'[c].it.idx = 1
                         /\ sent'[jams[o].guests[1]].last[typ] = it.msg
               ELSE IF it.idx < Len(it.list)
                    THEN /\ h'[c].pc = "bc"
                         /\ h'[c].it.idx = it.idx + 1
                         /\ h'[c].it.msg = it.msg
                         /\ sent'[it.list[it.idx + 1]].last[typ] = it.msg
                    ELSE h'[c].pc = pc

(* A step in which the handler of guest c begins its cleanup for a jam of  *)
(* the registry                                                               *)
GuestLeaves(c) ==
    /\ h[c].role = "guest"
    /\ h[c].pc \in {"loop", "loop_closed"}
    /\ h[c].jam_local = NoJam /\ h'[c].jam_local # NoJam

(* C34: the cleanup of a guest's disconnect takes exactly that guest out   *)
(* of the guest list, leaves the jam in the registry with its playback     *)
(* state, playlist and host, and sends a participants_update naming the    *)
(* host and the remaining guests to the host and then to every guest of    *)
(* the list.                                                                  *)
C34_Start ==
    \A c \in Conns :
        GuestLeaves(c) =>
            LET o == active_jams[h[c].jam_id]
                rest == SelectSeq(jams[o].guests, LAMBDA g : g # c)
                m == [type |-> "participants_update",
                      host |-> jams[o].host_name,
                      guests |-> [i \in 1..Len(rest) |-> h[rest[i]].username]]
            IN  /\ jams'[o].guests = rest
                /\ active_jams' = active_jams
                /\ Playback(jams'[o]) = Playback(jams[o])
                /\ jams'[o].host_ws = jams[o].host_ws
                /\ jams'[o].host_name = jams[o].host_name
                /\ sent'[jams[o].host_ws].last["participants_update"] = m
                /\ h'[c].pc = "bc_host" /\ h'[c].it.msg = m /\ h'[c].k = "done"

C34_Goes ==
    \A c \in Conns :
        (h[c].role = "guest" /\ h[c].k = "done") =>
            FanOut(c, "participants_update", "done")

C35_First ==
    \A c \in Conns : h[c].role # "none" => sent[c].first = "initial_sync"

(* the participants_update of a join, built while the jam is in the        *)
(* registry, names the new member, and the new member is the host it goes  *)
(* to or a guest of the list it goes to                                     *)
C35_Listed ==
    \A c \in Conns :
        (/\ h[c].pc = "joined" /\ h'[c].pc # "joined"
         /\ active_jams[h[c].jam_id] # NoJam)
            => LET o == active_jams[h[c].jam_id]
                   m == h'[c].it.msg
               IN  /\ h'[c].pc = "bc_host"
                   /\ m.type = "participants_update"
                   /\ IF h[c].role = "host"
                      THEN /\ m.host = h[c].username
                           /\ jams[o].host_ws = c
                           /\ sent'[c].last["participants_update"] = m
                      ELSE /\ \E i \in 1..Len(m.guests) : m.guests[i] = h[c].username
                           /\ \E i \in 1..Len(jams[o].guests) : jams[o].guests[i] = c

(* C35: an accepted connection is sent the snapshot first, and then the    *)
(* participants_update of its join names it and goes to everyone of the    *)
(* jam, the new member included, whatever other handlers do in between.    *)
C35_SnapshotThenRoster == []C35_First /\ [][C35_Listed]_vars

(* the handler of c has left its receive loop for good *)
Detected(c) == h[c].pc = "done"

(* a step in which the idle timeout of c fires and the probe goes through *)
ProbeWentThrough(c) ==
    /\ h[c].pc = "loop"
    /\ sent'[c].n["heartbeat"] # sent[c].n["heartbeat"]

(* a step in which the idle timeout of c fires and the probe fails *)
ProbeFailed(c) ==
    /\ h[c].pc = "loop" /\ h'[c].pc # "loop"
    /\ ws[c] = "dead" /\ ws'[c] = "dead"

(* C36, the probe that goes through: the connection is sent a heartbeat     *)
(* frame and nothing else changes; its handler waits on, and neither the    *)
(* jam's nor the guest's time of last activity moves.                       *)
C36_Alive ==
    \A c \in Conns :
        ProbeWentThrough(c) =>
            /\ inbox[c] = <<>>
            /\ sent'[c].last["heartbeat"] = Heartbeat
            /\ \A d \in Conns \ {c} : sent'[d] = sent[d]
            /\ h' = h /\ ws' = ws
            /\ jams' = jams /\ active_jams' = active_jams

(* C36, the probe that fails: the handler does what it does on a           *)
(* disconnect: a host starts the teardown of its jam (jam_ended to the     *)
(* guests, then their sockets closed and the jam popped), a guest is taken *)
(* out of the guest list and participants_update goes out.                  *)
C36_Dead ==
    \A c \in Conns :
        ProbeFailed(c) =>
            LET o == active_jams[h[c].jam_id] IN
            /\ inbox[c] = <<>>
            /\ o # NoJam
            /\ h'[c].jam_local = o
            /\ IF h[c].role = "host"
               THEN /\ jams'[o].guests = jams[o].guests
                    /\ IF jams[o].guests = <<>>
                       THEN h'[c].pc = "done" /\ active_jams'[h[c].jam_id] = NoJam
                       ELSE /\ h'[c].pc = "bc" /\ h'[c].k = "teardown"
                            /\ h'[c].it.msg = JamEnded(jams[o])
                            /\ sent'[jams[o].guests[1]].last["jam_ended"] = JamEnded(jams[o])
               ELSE /\ jams'[o].guests = SelectSeq(jams[o].guests, LAMBDA g : g # c)
                    /\ h'[c].pc = "bc_host" /\ h'[c].k = "done"
                    /\ h'[c].it.msg.type = "participants_update"

(* C36: a waiting handler whose peer has died is probed, and once a probe  *)
(* fails the handler runs the cleanup of a disconnect and ends; a probe    *)
(* that goes through leaves the connection and every time stamp as they    *)
(* were.                                                                     *)
C36_IdleProbe ==
    /\ [][C36_Alive /\ C36_Dead]_vars
    /\ \A c \in {ConnOrder[1], ConnOrder[2]} : (ws[c] = "dead") ~> Detected(c)

(* a guest whose peer died was probed with success, then a probe failed    *)
(* and its handler ended after the cleanup: the guest is out of the list   *)
(* of its jam, whose host was probed too, an idle window after the jam's   *)
(* last recorded activity                                                    *)
C36_Witness ==
    \E c \in Conns :
        /\ h[c].role = "guest" /\ ws[c] = "dead" /\ Detected(c)
        /\ sent[c].n["heartbeat"] >= 1
        /\ h[c].jam_local \in Live
        /\ c \notin Range(jams[h[c].jam_local].guests)
        /\ sent[jams[h[c].jam_local].host_ws].n["heartbeat"] >= 1
        /\ ws[jams[h[c].jam_local].host_ws] = "open"
        /\ jams[h[c].jam_local].last_heartbeat + IdleWindow <= now

(* a step of the disconnect handling of the host of jam id: its last one,  *)
(* which pops the jam                                                        *)
HostEnds(id) ==
    \E c \in Conns :
        /\ h[c].role = "host" /\ h[c].jam_id = id
        /\ h[c].pc \in {"loop", "loop_closed", "bc", "closing"}
        /\ h'[c].pc = "done"
        /\ h'[c].jam_local = active_jams[id]
        /\ \A d \in Conns \ {c} : h'[d] = h[d]

(* a step of the sweep that pops jam id *)
SweepEvicts(id) ==
    /\ sw' # sw
    /\ active_jams[id] \in sw'.evicted \ sw.evicted
    /\ h' = h

Active(c) ==
    /\ h[c].role # "none"
    /\ \/ h[c].pc \in {"joined", "loop"}
       \/ h[c].pc \in {"bc_host", "bc"} /\ h[c].k = "loop"

(* C38: a guest connection that is active while its jam is in the registry *)
(* is in the jam's guest list, once, whatever joins, leaves and broadcasts *)
(* of the jam overlap.                                                       *)
C38_Listed ==
    \A c \in Conns :
        (/\ h[c].role = "guest" /\ Active(c) /\ ws[c] = "open"
         /\ active_jams[h[c].jam_id] = h[c].jam /\ h[c].jam # NoJam)
            => Cardinality({i \in 1..Len(jams[h[c].jam].guests) :
                               jams[h[c].jam].guests[i] = c}) = 1

(* the songs that n host_ended frames in a row make the current song of a  *)
(* jam with this playlist and this current song                             *)
RECURSIVE Played(_, _, _)
Played(playlist, current, n) ==
    IF n = 0 THEN {}
    ELSE LET next_song == playlist[NextIndex(playlist, current)]
         IN  {next_song} \cup Played(playlist, next_song, n - 1)

(* C39: in a jam with a playlist, as many host_ended frames in a row as    *)
(* the playlist has entries make each entry the current song at least      *)
(* once, two entries of one track id included.                               *)
C39_Cycle ==
    \A o \in Live :
        jams[o].playlist # <<>>
            => Played(jams[o].playlist, jams[o].current_song, Len(jams[o].playlist))
                   = Range(jams[o].playlist)

(* the same for the playlists whose entries have ids of their own *)
C39_DistinctIds ==
    \A o \in Live :
        (/\ jams[o].playlist # <<>>
         /\ \A i, j \in 1..Len(jams[o].playlist) :
               jams[o].playlist[i].id = jams[o].playlist[j].id => i = j)
            => Played(jams[o].playlist, jams[o].current_song, Len(jams[o].playlist))
                   = Range(jams[o].playlist)

(* three host_ended frames in a row on the playlist a, x, b, whose first   *)
(* two entries share an id, were handled and the current song is x: b has  *)
(* not been reached and is not reached by any further host_ended            *)
C39_Stuck ==
    \E o \in Live :
        /\ jams[o].playlist = <<SongA, SongA2, SongB>>
        /\ jams[o].current_song = SongA2
        /\ nsends = MaxLoopSends
        /\ \A c \in Conns : inbox[c] = <<>>
        /\ h[jams[o].host_ws].seen.type = "host_ended"
        /\ NextIndex(jams[o].playlist, jams[o].current_song) = 2

(* the host name a jam of the registry holds: the name of its creation     *)
(* while no connection holds the host role, the name of that connection    *)
(* afterwards                                                                *)
C40_Stored ==
    \A o \in Live :
        IF jams[o].host_ws = NoWs
        THEN jams[o].host_name = Ann
        ELSE jams[o].host_name = h[jams[o].host_ws].username

(* every initial_sync and participants_update that is sent names as host   *)
(* the connection that holds the host role of the recipient's jam           *)
C40_Sent ==
    \A c \in Conns : \A t \in {"initial_sync", "participants_update"} :
        (sent'[c].n[t] # sent[c].n[t] \/ sent'[c].last[t] # sent[c].last[t])
            => LET o == h'[c].jam IN
               /\ jams'[o].host_ws # NoWs
               /\ sent'[c].last[t].host = h'[jams'[o].host_ws].username

(* C40: the host name of a jam is the name given at its creation until a   *)
(* host connects, and the snapshots and participants_update messages       *)
(* report the name of the connection that holds the host role, also when   *)
(* it is not the name of the creation.                                       *)
C40_HostName == []C40_Stored /\ [][C40_Sent]_vars

(* the jam was created for ann and bob holds the host role: the host and a *)
(* guest were sent a snapshot and a participants_update that name bob       *)
C40_Witness ==
    \E c, g \in Conns : \E o \in Live :
        /\ jams[o].host_ws = c /\ h[c].username = Bob /\ Bob # Ann
        /\ g \in Range(jams[o].guests)
        /\ \A d \in {c, g} : \A t \in {"initial_sync", "participants_update"} :
              sent[d].last[t] # NoMsg /\ sent[d].last[t].host = Bob

====
